---- MODULE Spec2Model ----
(***************************************************************************)
(* Model of the linuxdo-explorer tree data provider: the per-topic         *)
(* pagination state (topicPostsData), the load-more path, the tree         *)
(* children of a topic node and the full-topic preview with its            *)
(* re-entrancy guard.  Every async method is split at its awaits: the      *)
(* part before the first await is one action, each continuation another.   *)
(***************************************************************************)
EXTENDS Integers, Sequences, FiniteSets, TLC

\* ---------------------------------------------------------------- bounds
\* number of async invocations that may be suspended at an await at once
MaxCalls == 2

\* ------------------------------------------------------ program constants
\* loadMorePosts: unloadedPostIds.slice(0, 20)
LoadMoreBatchSize == 20
\* getAllPostsForTopic: const batchSize = 50
batchSize == 50

\* ------------------------------------------------------------ the forum
\* Two topics: topic 1 is short (4 posts, ids 1..4, one post moved so that
\* id order and post_number order differ), topic 2 is long (ids 11..).
Topics == {1, 2}

\* a post id that belongs to no stream of the forum
ForeignId == 4 + 5

PostNumberOf(id) ==
  CASE id = 1 -> 1
    [] id = 2 -> 3
    [] id = 3 -> 2
    [] id = 4 -> 4
    [] id = ForeignId -> 5
    [] OTHER -> id - 10

\* ApiTypes.Post, reduced to the fields the provider's logic reads
Post(id) == [id |-> id, post_number |-> PostNumberOf(id)]

Range(a, b) == [i \in 1..(b - a + 1) |-> a + i - 1]

PostsOf(ids) == [i \in 1..Len(ids) |-> Post(ids[i])]

Ids(posts) == {posts[i].id : i \in 1..Len(posts)}

Elems(s) == {s[i] : i \in 1..Len(s)}

Min(a, b) == IF a < b THEN a ELSE b

Stream1 == <<1, 3, 2, 4>>

\* ApiTypes.TopicDetail answers the server may give to GET /t/{id}.json
TopicDetails(t) ==
  IF t = 1
  THEN { [posts_count |-> 4, stream |-> Stream1, posts |-> PostsOf(<<1, 3>>)],
         [posts_count |-> 4, stream |-> Stream1, posts |-> PostsOf(<<1, 2>>)],
         [posts_count |-> 4, stream |-> Stream1, posts |-> PostsOf(Stream1)],
         [posts_count |-> 5, stream |-> Stream1, posts |-> PostsOf(<<1, 3>>)],
         [posts_count |-> 0, stream |-> << >>, posts |-> << >>] }
  ELSE { [posts_count |-> 42, stream |-> Range(11, 52), posts |-> PostsOf(Range(11, 30))],
         [posts_count |-> 60, stream |-> Range(11, 70), posts |-> PostsOf(Range(11, 30))],
         [posts_count |-> 72, stream |-> Range(11, 82), posts |-> PostsOf(Range(11, 30))] }

\* Answers the server may give to GET /t/{id}/posts.json?post_ids[]=...
\* (DiscourseApiClient.loadMoreTopicPosts returns the posts array as is):
\* the requested posts; those with the first one repeated; those after a
\* post of the first page; all but the last; those and a post of no stream
BatchResponses(t, stream, ids) ==
  LET exact == PostsOf(ids) IN
  IF t = 1
  THEN { exact,
         exact \o <<exact[1]>>,
         <<Post(stream[1])>> \o exact,
         SubSeq(exact, 1, Len(exact) - 1),
         exact \o <<Post(ForeignId)>> }
  ELSE { exact }

\* what a rejected API request says: its login expired (401/403), there is
\* no cookie, or anything else
ErrorKinds == {"expired", "no-cookie", "other"}

\* ------------------------------------------------------------- the state
VARIABLES
  topicPostsData,      \* Map<number, {allPostIds, loadedPosts, postsCount}>
  calls,               \* async invocations suspended at an await
  isLoadingPreview,    \* the preview guard
  currentTopicPanel,   \* the preview panel, or NoPanel
  ret,                 \* what the handler step that just ran returned/showed
  focus,               \* the topic node and the view the user works with
  servedOutsideStream, \* history: an endpoint returned a post not in the stream
  livePanels,          \* number of webview panels created and not yet disposed
  readNotificationIds, \* Set<number> of notifications marked as read
  cookieInitialized,   \* DiscourseApiClient: the lazy-load flag
  cookie,              \* DiscourseApiClient: the cached cookie string
  csrfToken,           \* DiscourseApiClient: the cached CSRF token
  userAgent,           \* DiscourseApiClient: the cached user-agent string
  secrets,             \* CookieStorage: the cookie kept in the secret storage
  storedUserAgent,     \* CookieStorage: the user-agent kept in the secret storage
  authLoads,           \* history: lazy loads of the authentication material
  settings,            \* globalState 'linuxdo-settings': autoRefreshMinutes
  autoRefreshTimer,    \* activate: whether autoRefreshTimer holds a timer
  intervals,           \* timers started by setInterval and not cleared
  pendingUpdates,      \* linuxdo.updateAutoRefresh executions queued
  cooked               \* Post.cooked: the HTML body of the post being rendered

\* the state of the API client and of the storage behind its providers
clientVars == <<cookieInitialized, cookie, csrfToken, userAgent, secrets,
                storedUserAgent, authLoads>>

\* the persisted settings and the auto-refresh timer of activate()
extensionVars == <<settings, autoRefreshTimer, intervals, pendingUpdates>>

vars == <<topicPostsData, calls, isLoadingPreview, currentTopicPanel, ret,
          focus, servedOutsideStream, livePanels, readNotificationIds,
          clientVars, extensionVars, cooked>>

\* The handlers of one topic read and write only that topic's map entry, and
\* the preview reads and writes only its guard and its panel, so a session
\* is explored for one topic node and one view at a time; marking
\* notifications reads and writes only the read set.
Views == {"tree", "preview", "notifications"}

Slots == 1..MaxCalls

Idle == [op |-> "idle"]

NoPanel == [open |-> FALSE]

\* the answer of an API request that failed
Failed == [ok |-> FALSE]

\* a new invocation takes the lowest free slot (slots are only names)
FreeSlots ==
  {s \in Slots : calls[s].op = "idle" /\ \A r \in 1..(s - 1) : calls[r].op # "idle"}

Has(t) == t \in DOMAIN topicPostsData

\* Map.set
MapSet(m, k, v) == [x \in (DOMAIN m) \cup {k} |-> IF x = k THEN v ELSE m[x]]

\* DiscourseApiClient's field initialisers
ClientConstructed ==
  /\ cookieInitialized = FALSE
  /\ cookie = ""
  /\ csrfToken = ""
  /\ userAgent = ""
  /\ authLoads = 0

\* activate(): `let autoRefreshTimer` is undefined and no timer is started
Activated ==
  /\ autoRefreshTimer = FALSE
  /\ intervals = 0
  /\ pendingUpdates = 0

Init ==
  /\ topicPostsData = << >>
  /\ calls = [s \in Slots |-> Idle]
  /\ isLoadingPreview = FALSE
  /\ currentTopicPanel = NoPanel
  /\ ret = [op |-> "init"]
  /\ focus \in [topic : Topics, view : Views]
  /\ cooked = << >>
  /\ servedOutsideStream = FALSE
  /\ livePanels = 0
  /\ readNotificationIds = {}
  /\ ClientConstructed
  /\ secrets = "_t=session"
  /\ storedUserAgent = "Mozilla"
  /\ Activated
  /\ settings = 0

\* --------------------------------------------------------- pure helpers
\* allPostIds.filter(id => !loadedPostIds.has(id))
FilterNotIn(ids, loaded) ==
  LET keep(id) == id \notin loaded IN SelectSeq(ids, keep)

\* morePosts.filter(post => !loadedPostIds.has(post.id))
FilterPostsNotIn(posts, loaded) ==
  LET keep(post) == post.id \notin loaded IN SelectSeq(posts, keep)

\* Array.prototype.slice(from, from + n), 0-based from
Slice(s, from, n) == SubSeq(s, from + 1, Min(Len(s), from + n))

\* faulty variant: the batch taken by index arithmetic (skip as many stream ids as
\* posts are loaded) instead of by set difference
NextBatchIdsByIndex(allPostIds, loadedPostIds) ==
  Slice(allPostIds, Cardinality(loadedPostIds), LoadMoreBatchSize)

\* faulty variant: the batch one id short
NextBatchIdsShort(allPostIds, loadedPostIds) ==
  Slice(FilterNotIn(allPostIds, loadedPostIds), 0, LoadMoreBatchSize - 1)

\* unloadedPostIds.slice(0, 20)
NextBatchIds(allPostIds, loadedPostIds) ==
  Slice(FilterNotIn(allPostIds, loadedPostIds), 0, LoadMoreBatchSize)

\* A stable sort on post_number by halving the key range: the posts with a
\* key in the lower half, in their order, then those in the upper half.
RECURSIVE SortRange(_, _, _)
SortRange(posts, lo, hi) ==
  IF Len(posts) <= 1 \/ lo = hi THEN posts
  ELSE LET mid == (lo + hi) \div 2
           lower(p) == p.post_number <= mid
           upper(p) == p.post_number > mid
       IN SortRange(SelectSeq(posts, lower), lo, mid)
            \o SortRange(SelectSeq(posts, upper), mid + 1, hi)

\* faulty variant: the posts displayed in fetch order
SortByPostNumberOmitted(posts) == posts

\* posts.slice().sort((a, b) => a.post_number - b.post_number): Array.sort
\* is stable; the post numbers of the modelled forum lie in 0..127
SortByPostNumber(posts) == SortRange(posts, 0, 127)

\* faulty variant: the load-more node also shown when loadedPosts.length == postsCount
TopicNodesOffByOne(t, topicData) ==
  LET sortedPosts == SortByPostNumber(topicData.loadedPosts)
      postNodes ==
        [i \in 1..Len(sortedPosts) |->
           [type |-> "post", topicId |-> t, postId |-> sortedPosts[i].id,
            post_number |-> sortedPosts[i].post_number]]
  IN IF Len(topicData.loadedPosts) <= topicData.postsCount
     THEN Append(postNodes,
                 [type |-> "load-more", topicId |-> t,
                  description |-> topicData.postsCount - Len(topicData.loadedPosts)])
     ELSE postNodes

\* the TreeItemNode list getTopicPosts builds from a topic's state
TopicNodes(t, topicData) ==
  LET sortedPosts == SortByPostNumber(topicData.loadedPosts)
      postNodes ==
        [i \in 1..Len(sortedPosts) |->
           [type |-> "post", topicId |-> t, postId |-> sortedPosts[i].id,
            post_number |-> sortedPosts[i].post_number]]
  IN IF Len(topicData.loadedPosts) < topicData.postsCount
     THEN Append(postNodes,
                 [type |-> "load-more", topicId |-> t,
                  description |-> topicData.postsCount - Len(topicData.loadedPosts)])
     ELSE postNodes

\* ------------------------------------------------------------- refresh
\* who calls refresh(): the linuxdo.refresh command, the auto-refresh timer
RefreshSources == {"command", "timer"}

\* faulty variant: a refresh that starts the session over
RefreshResetsState(by) ==
  /\ ret' = [op |-> "refresh", by |-> by]
  /\ topicPostsData' = << >>
  /\ readNotificationIds' = {}
  /\ UNCHANGED <<focus, cooked, livePanels, clientVars, extensionVars, calls, isLoadingPreview,
                 currentTopicPanel, servedOutsideStream>>

\* refresh(): fires the tree-changed event, touches no provider state
RefreshBy(by) ==
  /\ ret' = [op |-> "refresh", by |-> by]
  /\ UNCHANGED <<focus, cooked, livePanels, readNotificationIds, clientVars, extensionVars,
                 topicPostsData, calls, isLoadingPreview, currentTopicPanel,
                 servedOutsideStream>>

Refresh == \E by \in RefreshSources : RefreshBy(by)

\* -------------------------------------------------------- getRootNodes
\* ids of the notifications of the user
Notifications == {1, 2}

\* the unread notifications the server may list
NotificationLists == SUBSET Notifications

\* the categories the server lists
Categories == <<1>>

\* getChildren(undefined): getRootNodes up to apiClient.getNotifications
GetRootNodes ==
  /\ \E s \in FreeSlots :
       calls' = [calls EXCEPT ![s] = [op |-> "getRootNodes", pc |-> "notifications"]]
  /\ ret' = [op |-> "suspended", by |-> "getRootNodes", at |-> "notifications"]
  /\ UNCHANGED <<focus, cooked, livePanels, readNotificationIds, clientVars, extensionVars,
                 topicPostsData, isLoadingPreview, currentTopicPanel,
                 servedOutsideStream>>

\* faulty variant: the filter looks at the server's read flag only
NotificationNodesByServerFlag(unread) ==
  LET shown(n) == n \in unread
  IN [i \in 1..Len(SelectSeq(<<1, 2>>, shown)) |->
        [type |-> "notification", id |-> SelectSeq(<<1, 2>>, shown)[i]]]

\* notifications.filter(n => !n.read && !this.readNotificationIds.has(n.id)),
\* one node each
NotificationNodes(unread) ==
  LET shown(n) == n \in unread /\ n \notin readNotificationIds
  IN [i \in 1..Len(SelectSeq(<<1, 2>>, shown)) |->
        [type |-> "notification", id |-> SelectSeq(<<1, 2>>, shown)[i]]]

\* getRootNodes after getNotifications settled: the nodes of the unread
\* notifications (none when it rejected: the catch only logs), then the
\* all-topics node; next await categoryService.getCategories()
RootNotificationsDone(s, answer) ==
  LET nodes == IF answer.ok THEN NotificationNodes(answer.unread) ELSE << >> IN
  /\ calls' = [calls EXCEPT ![s] =
                 [op |-> "getRootNodes", pc |-> "categories",
                  nodes |-> Append(nodes, [type |-> "all-topics"])]]
  /\ ret' = [op |-> "suspended", by |-> "getRootNodes", at |-> "categories",
             answer |-> answer, nodes |-> nodes]
  /\ UNCHANGED <<focus, cooked, livePanels, readNotificationIds, clientVars, extensionVars,
                 topicPostsData, isLoadingPreview, currentTopicPanel,
                 servedOutsideStream>>

\* getCategories resolved: one node per category, return nodes
RootCategoriesDone(s) ==
  /\ calls' = [calls EXCEPT ![s] = Idle]
  /\ ret' = [op |-> "getChildren", element |-> "root", failed |-> FALSE,
             result |-> [raised |-> FALSE, prompt |-> "none",
                         nodes |-> calls[s].nodes
                                     \o [i \in 1..Len(Categories) |->
                                           [type |-> "category",
                                            id |-> Categories[i]]]]]
  /\ UNCHANGED <<focus, cooked, livePanels, readNotificationIds, clientVars, extensionVars,
                 topicPostsData, isLoadingPreview, currentTopicPanel,
                 servedOutsideStream>>

\* getCategories rejected: getRootNodes' own catch shows error.message unless
\* it names an expired login, and the nodes built so far are returned
RootCategoriesFail(s, kind) ==
  /\ calls' = [calls EXCEPT ![s] = Idle]
  /\ ret' = [op |-> "getChildren", element |-> "root", failed |-> TRUE,
             kind |-> kind,
             result |-> [raised |-> FALSE,
                         prompt |-> IF kind = "expired" THEN "none" ELSE "message",
                         nodes |-> calls[s].nodes]]
  /\ UNCHANGED <<focus, cooked, livePanels, readNotificationIds, clientVars, extensionVars,
                 topicPostsData, isLoadingPreview, currentTopicPanel,
                 servedOutsideStream>>

GetRootNodesResume(s) ==
  /\ calls[s].op = "getRootNodes"
  /\ \/ /\ calls[s].pc = "notifications"
        /\ \/ \E unread \in NotificationLists :
                RootNotificationsDone(s, [ok |-> TRUE, unread |-> unread])
           \/ RootNotificationsDone(s, Failed)
     \/ /\ calls[s].pc = "categories"
        /\ \/ RootCategoriesDone(s)
           \/ \E kind \in ErrorKinds : RootCategoriesFail(s, kind)

\* ------------------------------------------------ markNotificationAsRead
\* markNotificationAsRead(notificationId) up to its await
MarkNotificationAsRead(n) ==
  /\ \E s \in FreeSlots :
       calls' = [calls EXCEPT ![s] =
                   [op |-> "markNotificationAsRead", notificationId |-> n]]
  /\ ret' = [op |-> "suspended", by |-> "markNotificationAsRead",
             notificationId |-> n]
  /\ UNCHANGED <<focus, cooked, livePanels, readNotificationIds, clientVars, extensionVars,
                 topicPostsData, isLoadingPreview, currentTopicPanel,
                 servedOutsideStream>>

\* apiClient.markNotificationAsRead resolved (true or false, it never
\* rejects and the result is not looked at): add the id, then refresh()
MarkNotificationAsReadResume(s) ==
  /\ calls[s].op = "markNotificationAsRead"
  /\ readNotificationIds' = readNotificationIds \cup {calls[s].notificationId}
  /\ calls' = [calls EXCEPT ![s] = Idle]
  /\ \E marked \in BOOLEAN :
       ret' = [op |-> "markNotificationAsRead",
               notificationId |-> calls[s].notificationId, marked |-> marked]
  /\ UNCHANGED <<focus, cooked, livePanels, clientVars, extensionVars, topicPostsData,
                 isLoadingPreview, currentTopicPanel, servedOutsideStream>>

\* ------------------------------------------------------- getTopicPosts
\* getTopicPosts(topicId) up to its first await: with state present it runs
\* to completion, otherwise it suspends on apiClient.getTopic
GetTopicPosts(t) ==
  IF Has(t)
  THEN /\ ret' = [op |-> "getTopicPosts", topic |-> t,
                  nodes |-> TopicNodes(t, topicPostsData[t])]
       /\ UNCHANGED <<focus, cooked, livePanels, readNotificationIds, clientVars, extensionVars,
                      topicPostsData, calls, isLoadingPreview,
                      currentTopicPanel, servedOutsideStream>>
  ELSE /\ \E s \in FreeSlots :
            calls' = [calls EXCEPT ![s] = [op |-> "getTopicPosts", topic |-> t]]
       /\ ret' = [op |-> "suspended", by |-> "getTopicPosts", topic |-> t]
       /\ UNCHANGED <<focus, cooked, livePanels, readNotificationIds, clientVars, extensionVars,
                      topicPostsData, isLoadingPreview, currentTopicPanel,
                      servedOutsideStream>>

\* faulty variant: the continuation looks the topic up in the map again after its await
DetachNever(cs, t) == cs

\* a loadMorePosts continuation holding the replaced state object now writes
\* to an object the map no longer references
Detach(cs, t) ==
  [s \in Slots |->
     IF cs[s].op = "loadMorePosts" /\ cs[s].topic = t
     THEN [cs[s] EXCEPT !.detached = TRUE]
     ELSE cs[s]]

\* getTopicPosts after apiClient.getTopic resolved: seed the state (the
\* has() test was made before the await and is not repeated) and build nodes
GetTopicPostsSeed(s, topicDetail) ==
  LET t == calls[s].topic
      topicData == [allPostIds |-> topicDetail.stream,
                    loadedPosts |-> topicDetail.posts,
                    postsCount |-> topicDetail.posts_count]
  IN /\ topicPostsData' = MapSet(topicPostsData, t, topicData)
     /\ calls' = [Detach(calls, t) EXCEPT ![s] = Idle]
     /\ ret' = [op |-> "getTopicPosts", topic |-> t,
                nodes |-> TopicNodes(t, topicData)]
     /\ servedOutsideStream' =
          (servedOutsideStream
             \/ ~(Ids(topicDetail.posts) \subseteq Elems(topicDetail.stream)))
     /\ UNCHANGED <<focus, cooked, livePanels, readNotificationIds, clientVars, extensionVars,
                    isLoadingPreview, currentTopicPanel>>

\* getChildren when the promise its try block returned rejects: the block
\* says `return this.getTopicPosts(...)` without await, so the try has been
\* left when the rejection arrives and getChildren's own promise rejects
ChildrenRejected(kind) ==
  [raised |-> TRUE, nodes |-> << >>, prompt |-> "none"]

\* apiClient.getTopic rejected: getTopicPosts rejects and so does getChildren
GetTopicPostsFail(s, kind) ==
  /\ calls' = [calls EXCEPT ![s] = Idle]
  /\ ret' = [op |-> "getChildren", element |-> "topic",
             topic |-> calls[s].topic, failed |-> TRUE, kind |-> kind,
             result |-> ChildrenRejected(kind)]
  /\ UNCHANGED <<focus, cooked, livePanels, readNotificationIds, clientVars, extensionVars,
                 topicPostsData, isLoadingPreview, currentTopicPanel,
                 servedOutsideStream>>

GetTopicPostsResume(s) ==
  /\ calls[s].op = "getTopicPosts"
  /\ \/ \E topicDetail \in TopicDetails(calls[s].topic) :
          GetTopicPostsSeed(s, topicDetail)
     \/ \E kind \in ErrorKinds : GetTopicPostsFail(s, kind)

\* -------------------------------------------------------- loadMorePosts
\* loadMorePosts(topicId) up to its await: no state -> logs and returns; no
\* unloaded stream id -> reports "no more replies"; otherwise requests the
\* next batch and suspends, keeping loadedPostIds as computed here
LoadMorePosts(t) ==
  IF ~Has(t)
  THEN /\ ret' = [op |-> "loadMorePosts", topic |-> t, outcome |-> "no-data",
                  fetched |-> FALSE]
       /\ UNCHANGED <<focus, cooked, livePanels, readNotificationIds, clientVars, extensionVars,
                      topicPostsData, calls, isLoadingPreview,
                      currentTopicPanel, servedOutsideStream>>
  ELSE LET allPostIds == topicPostsData[t].allPostIds
           loadedPostIds == Ids(topicPostsData[t].loadedPosts)
           unloadedPostIds == FilterNotIn(allPostIds, loadedPostIds)
       IN IF Len(unloadedPostIds) = 0
          THEN /\ ret' = [op |-> "loadMorePosts", topic |-> t,
                          outcome |-> "no-more-replies", fetched |-> FALSE]
               /\ UNCHANGED <<focus, cooked, livePanels, readNotificationIds, clientVars, extensionVars,
                              topicPostsData, calls, isLoadingPreview,
                              currentTopicPanel, servedOutsideStream>>
          ELSE /\ \E s \in FreeSlots :
                    calls' = [calls EXCEPT ![s] =
                                [op |-> "loadMorePosts", topic |-> t,
                                 allPostIds |-> allPostIds,
                                 loadedPostIds |-> loadedPostIds,
                                 nextBatchIds |-> NextBatchIds(allPostIds, loadedPostIds),
                                 sent |-> 1,
                                 detached |-> FALSE]]
               /\ ret' = [op |-> "loadMorePosts", topic |-> t,
                          outcome |-> "suspended", fetched |-> TRUE,
                          requests |-> <<NextBatchIds(allPostIds, loadedPostIds)>>]
               /\ UNCHANGED <<focus, cooked, livePanels, readNotificationIds, clientVars, extensionVars,
                              topicPostsData, isLoadingPreview,
                              currentTopicPanel, servedOutsideStream>>

\* const newPosts = morePosts.filter(...); loadedPosts = [...loadedPosts, ...newPosts]
MergeLoadMore(loadedPosts, morePosts, loadedPostIds) ==
  loadedPosts \o FilterPostsNotIn(morePosts, loadedPostIds)

\* loadMorePosts after loadMoreTopicPosts resolved: merge into the state
\* object read before the await, then fire the tree-changed event
LoadMoreMerge(s, morePosts) ==
  LET c == calls[s]
      t == c.topic
  IN /\ topicPostsData' =
          IF c.detached THEN topicPostsData
          ELSE [topicPostsData EXCEPT ![t].loadedPosts =
                  MergeLoadMore(@, morePosts, c.loadedPostIds)]
     /\ calls' = [calls EXCEPT ![s] = Idle]
     /\ ret' = [op |-> "loadMorePosts", topic |-> t, outcome |-> "merged",
                fetched |-> FALSE, requested |-> c.nextBatchIds,
                morePosts |-> morePosts, loadedPostIds |-> c.loadedPostIds,
                before |-> IF c.detached THEN 0
                           ELSE Len(topicPostsData[t].loadedPosts),
                sent |-> c.sent, detached |-> c.detached]
     /\ servedOutsideStream' =
          (servedOutsideStream \/ ~(Ids(morePosts) \subseteq Elems(c.allPostIds)))
     /\ UNCHANGED <<focus, cooked, livePanels, readNotificationIds, clientVars, extensionVars,
                    isLoadingPreview, currentTopicPanel>>

\* faulty variant: a failed batch fetch is tried once more before the error is shown
LoadMoreFailRetries(s) ==
  IF calls[s].sent < 2
  THEN /\ calls' = [calls EXCEPT ![s].sent = 2]
       /\ ret' = [op |-> "suspended", by |-> "loadMorePosts",
                  topic |-> calls[s].topic]
       /\ UNCHANGED <<focus, cooked, livePanels, readNotificationIds, clientVars, extensionVars,
                      topicPostsData, isLoadingPreview, currentTopicPanel,
                      servedOutsideStream>>
  ELSE /\ calls' = [calls EXCEPT ![s] = Idle]
       /\ ret' = [op |-> "loadMorePosts", topic |-> calls[s].topic,
                  outcome |-> "error-shown", fetched |-> FALSE,
                  requested |-> calls[s].nextBatchIds, sent |-> calls[s].sent,
                  allPostIds |-> calls[s].allPostIds,
                  loadedPostIds |-> calls[s].loadedPostIds]
       /\ UNCHANGED <<focus, cooked, livePanels, readNotificationIds, clientVars, extensionVars,
                      topicPostsData, isLoadingPreview, currentTopicPanel,
                      servedOutsideStream>>

\* loadMoreTopicPosts rejected: the catch shows the error, state untouched
LoadMoreFail(s) ==
  /\ calls' = [calls EXCEPT ![s] = Idle]
  /\ ret' = [op |-> "loadMorePosts", topic |-> calls[s].topic,
             outcome |-> "error-shown", fetched |-> FALSE,
             requested |-> calls[s].nextBatchIds, sent |-> calls[s].sent,
             allPostIds |-> calls[s].allPostIds,
             loadedPostIds |-> calls[s].loadedPostIds]
  /\ UNCHANGED <<focus, cooked, livePanels, readNotificationIds, clientVars, extensionVars,
                 topicPostsData, isLoadingPreview, currentTopicPanel,
                 servedOutsideStream>>

LoadMoreResume(s) ==
  /\ calls[s].op = "loadMorePosts"
  /\ \/ \E morePosts \in BatchResponses(calls[s].topic, calls[s].allPostIds,
                                        calls[s].nextBatchIds) :
          LoadMoreMerge(s, morePosts)
     \/ LoadMoreFail(s)

\* ----------------------------------------------------- openTopicPreview
\* faulty variant: openTopicPreview without the isLoadingPreview test
OpenTopicPreviewUnguarded(t) ==
  /\ \E s \in FreeSlots :
       calls' = [calls EXCEPT ![s] =
                   [op |-> "openTopicPreview", topic |-> t,
                    pc |-> "getTopic", sent |-> 1]]
  /\ isLoadingPreview' = TRUE
  /\ ret' = [op |-> "openTopicPreview", topic |-> t, outcome |-> "loading"]
  /\ UNCHANGED <<focus, cooked, livePanels, readNotificationIds, clientVars, extensionVars,
                 topicPostsData, currentTopicPanel, servedOutsideStream>>

\* openTopicPreview(topicId, title) up to the first await of
\* getAllPostsForTopic: dropped while the guard is set, otherwise the guard
\* is taken and the topic detail requested
OpenTopicPreview(t) ==
  IF isLoadingPreview
  THEN /\ ret' = [op |-> "openTopicPreview", topic |-> t, outcome |-> "dropped"]
       /\ UNCHANGED <<focus, cooked, livePanels, readNotificationIds, clientVars, extensionVars,
                      topicPostsData, calls, isLoadingPreview,
                      currentTopicPanel, servedOutsideStream>>
  ELSE /\ \E s \in FreeSlots :
            calls' = [calls EXCEPT ![s] =
                        [op |-> "openTopicPreview", topic |-> t,
                         pc |-> "getTopic", sent |-> 1]]
       /\ isLoadingPreview' = TRUE
       /\ ret' = [op |-> "openTopicPreview", topic |-> t, outcome |-> "loading"]
       /\ UNCHANGED <<focus, cooked, livePanels, readNotificationIds, clientVars, extensionVars,
                      topicPostsData, currentTopicPanel, servedOutsideStream>>

\* faulty variant: a panel created on every open, the reference not consulted
LivePanelsAlwaysCreated(panel, n) == n + 1

\* if (this.currentTopicPanel) { reuse } else { createWebviewPanel(...) }
LivePanelsAfterShow(panel, n) == IF panel.open THEN n ELSE n + 1

\* the rest of openTopicPreview once getAllPostsForTopic returned `posts`:
\* nothing to show, or reuse the panel, or create one; finally drop the guard
\* `assembly` records what getAllPostsForTopic did: the stream and the first
\* page it was given, the batches it requested and their answers
ShowPreview(s, posts, assembly) ==
  LET t == calls[s].topic IN
  /\ currentTopicPanel' =
       IF Len(posts) = 0 THEN currentTopicPanel
       ELSE [open |-> TRUE, title |-> t, html |-> posts]
  /\ livePanels' =
       IF Len(posts) = 0 THEN livePanels
       ELSE LivePanelsAfterShow(currentTopicPanel, livePanels)
  /\ ret' = [op |-> "openTopicPreview", topic |-> t,
             outcome |-> IF Len(posts) = 0 THEN "no-content"
                         ELSE IF currentTopicPanel.open THEN "reused"
                         ELSE "created",
             posts |-> posts, sent |-> calls[s].sent, assembly |-> assembly]
  /\ isLoadingPreview' = FALSE
  /\ calls' = [calls EXCEPT ![s] = Idle]
  /\ UNCHANGED <<focus, cooked, readNotificationIds, clientVars, extensionVars, topicPostsData,
                 servedOutsideStream>>

\* for (const post of morePosts) if (!loadedPostIds.has(post.id)) { add; push }:
\* a post is pushed when its id is not among posts and not earlier in the batch
MergePreview(posts, morePosts) ==
  LET loadedPostIds == Ids(posts)
      pushed(i) == /\ morePosts[i].id \notin loadedPostIds
                   /\ \A j \in 1..(i - 1) : morePosts[j].id # morePosts[i].id
      kept == SelectSeq([i \in 1..Len(morePosts) |-> i], pushed)
  IN posts \o [k \in 1..Len(kept) |-> morePosts[kept[k]]]

\* faulty variant: a batch that runs one id into the next one
PreviewBatchIdsOverlapping(unloadedPostIds, i) ==
  Slice(unloadedPostIds, i, batchSize + 1)

\* unloadedPostIds.slice(i, i + batchSize)
PreviewBatchIds(unloadedPostIds, i) == Slice(unloadedPostIds, i, batchSize)

\* getAllPostsForTopic after apiClient.getTopic resolved: return the first
\* page sorted, or request the first batch of the unloaded ids
PreviewTopicDetail(s, topicDetail) ==
  LET allPostIds == topicDetail.stream
      posts == topicDetail.posts
      unloadedPostIds == FilterNotIn(allPostIds, Ids(posts))
      batchIds == PreviewBatchIds(unloadedPostIds, 0)
  IN IF Len(allPostIds) = 0 \/ Len(posts) >= topicDetail.posts_count
        \/ Len(unloadedPostIds) = 0
     THEN ShowPreview(s, SortByPostNumber(posts),
                      [stream |-> allPostIds, firstPage |-> posts,
                       batches |-> << >>, answers |-> << >>])
     ELSE /\ calls' = [calls EXCEPT ![s] =
                         [op |-> "openTopicPreview", topic |-> calls[s].topic,
                          pc |-> "batch", allPostIds |-> allPostIds,
                          posts |-> posts,
                          unloadedPostIds |-> unloadedPostIds, i |-> 0,
                          batchIds |-> batchIds,
                          sent |-> calls[s].sent + 1,
                          firstPage |-> posts,
                          batches |-> <<batchIds>>, answers |-> << >>]]
          /\ ret' = [op |-> "openTopicPreview", topic |-> calls[s].topic,
                     outcome |-> "batch-requested"]
          /\ UNCHANGED <<focus, cooked, livePanels, readNotificationIds, clientVars, extensionVars,
                         topicPostsData, isLoadingPreview, currentTopicPanel,
                         servedOutsideStream>>

\* faulty variant: the catch shows the error and the guard stays set
PreviewTopicFailKeepsGuard(s) ==
  /\ calls' = [calls EXCEPT ![s] = Idle]
  /\ ret' = [op |-> "openTopicPreview", topic |-> calls[s].topic,
             outcome |-> "error-shown", sent |-> calls[s].sent]
  /\ UNCHANGED <<focus, cooked, livePanels, readNotificationIds, clientVars,
                 extensionVars, topicPostsData, isLoadingPreview,
                 currentTopicPanel, servedOutsideStream>>

\* apiClient.getTopic rejected inside getAllPostsForTopic: openTopicPreview's
\* catch shows the error, finally drops the guard
PreviewTopicFail(s) ==
  /\ calls' = [calls EXCEPT ![s] = Idle]
  /\ isLoadingPreview' = FALSE
  /\ ret' = [op |-> "openTopicPreview", topic |-> calls[s].topic,
             outcome |-> "error-shown", sent |-> calls[s].sent]
  /\ UNCHANGED <<focus, cooked, livePanels, readNotificationIds, clientVars, extensionVars,
                 topicPostsData, currentTopicPanel, servedOutsideStream>>

\* one turn of the batch loop after its await: the batch was merged (or
\* skipped when it failed), now request the next batch or sort and return
PreviewBatchDone(s, posts, answer) ==
  LET c == calls[s]
      i == c.i + batchSize
      batchIds == PreviewBatchIds(c.unloadedPostIds, i)
      answers == Append(c.answers, answer)
  IN IF i < Len(c.unloadedPostIds)
     THEN /\ calls' = [calls EXCEPT ![s] =
                         [c EXCEPT !.posts = posts, !.i = i,
                                   !.batchIds = batchIds,
                                   !.sent = c.sent + 1,
                                   !.batches = Append(c.batches, batchIds),
                                   !.answers = answers]]
          /\ ret' = [op |-> "openTopicPreview", topic |-> c.topic,
                     outcome |-> "batch-requested"]
          /\ UNCHANGED <<focus, cooked, livePanels, readNotificationIds, clientVars, extensionVars,
                         topicPostsData, isLoadingPreview, currentTopicPanel,
                         servedOutsideStream>>
     ELSE ShowPreview(s, SortByPostNumber(posts),
                      [stream |-> c.allPostIds, firstPage |-> c.firstPage,
                       batches |-> c.batches, answers |-> answers])

\* faulty variant: a failed batch ends the assembly with what was fetched so far
PreviewBatchFailAborts(s) ==
  ShowPreview(s, SortByPostNumber(calls[s].posts),
              [stream |-> calls[s].allPostIds,
               firstPage |-> calls[s].firstPage,
               batches |-> calls[s].batches,
               answers |-> Append(calls[s].answers, Failed)])

\* loadMoreTopicPosts rejected inside the loop: the catch logs, the loop goes on
PreviewBatchFail(s) == PreviewBatchDone(s, calls[s].posts, Failed)

PreviewResume(s) ==
  /\ calls[s].op = "openTopicPreview"
  /\ \/ /\ calls[s].pc = "getTopic"
        /\ \/ \E topicDetail \in TopicDetails(calls[s].topic) :
                PreviewTopicDetail(s, topicDetail)
           \/ PreviewTopicFail(s)
     \/ /\ calls[s].pc = "batch"
        /\ \/ \E morePosts \in BatchResponses(calls[s].topic,
                                              calls[s].allPostIds,
                                              calls[s].batchIds) :
                PreviewBatchDone(s, MergePreview(calls[s].posts, morePosts),
                                 [ok |-> TRUE, morePosts |-> morePosts])
           \/ PreviewBatchFail(s)

\* the user closes a preview panel; its onDidDispose handler clears the
\* provider's reference
PanelDispose ==
  /\ livePanels > 0
  /\ livePanels' = livePanels - 1
  /\ currentTopicPanel' = NoPanel
  /\ ret' = [op |-> "onDidDispose"]
  /\ UNCHANGED <<focus, cooked, readNotificationIds, clientVars, extensionVars, topicPostsData, calls,
                 isLoadingPreview, servedOutsideStream>>

\* ------------------------------------------------------ the specification
Next ==
  \/ Refresh
  \/ \E t \in Topics : focus = [topic |-> t, view |-> "tree"] /\ GetTopicPosts(t)
  \/ \E s \in Slots : GetTopicPostsResume(s)
  \/ \E t \in Topics : focus = [topic |-> t, view |-> "tree"] /\ LoadMorePosts(t)
  \/ \E s \in Slots : LoadMoreResume(s)
  \/ \E t \in Topics : focus = [topic |-> t, view |-> "preview"] /\ OpenTopicPreview(t)
  \/ \E s \in Slots : PreviewResume(s)
  \/ PanelDispose
  \/ \E n \in Notifications :
       focus.view = "notifications" /\ MarkNotificationAsRead(n)
  \/ \E s \in Slots : MarkNotificationAsReadResume(s)
  \/ focus.view = "notifications" /\ GetRootNodes
  \/ \E s \in Slots : GetRootNodesResume(s)

Spec == Init /\ [][Next]_vars

\* ======================================================= DiscourseApiClient
\* The client is modelled on its own: its fields, the secret storage its
\* providers read, and the invocations of request, refreshCookie and
\* validateCookie suspended at an await (in `calls`).

\* the provider's state, which the client never touches
providerVars == <<topicPostsData, isLoadingPreview, currentTopicPanel, focus,
                  servedOutsideStream, livePanels, readNotificationIds, cooked>>

\* what the secret storage may hold: nothing, a cookie with the _t session
\* entry, a cookie without it
CookieValues == {"", "_t=session", "cf=clearance"}

\* extractCsrfToken: the value of csrf_token= or _t= in the cookie, else ''
extractCsrfToken(cookieString) ==
  IF cookieString = "_t=session" THEN "session" ELSE ""

\* what fetchCsrfTokenFromHomepage may return: a token found in the page, or
\* '' (no token in the page, or the fetch failed: it catches everything)
HomepageTokens == {"", "page-token"}

\* httpsRequest(..., followRedirects: number = 3)
followRedirectsDefault == 3

\* httpsRequest: res.statusCode === 301 || 302 || 307 || 308
RedirectCodes == {301, 302, 307, 308}

\* What one HTTP exchange may bring: a response (status, whether it has a
\* location header, whether its body parses as JSON) or a transport error.
Answers ==
  {[kind |-> "response", statusCode |-> c, location |-> FALSE, json |-> j] :
     c \in {200, 204}, j \in BOOLEAN}
  \cup {[kind |-> "response", statusCode |-> 302, location |-> l, json |-> FALSE] :
          l \in BOOLEAN}
  \cup {[kind |-> "response", statusCode |-> c, location |-> FALSE, json |-> FALSE] :
          c \in {401, 403, 500}}
  \cup {[kind |-> "error"]}

\* httpsRequest reads and writes no field of the client and validateCookie
\* none either, so a session of the client is explored in one of three
\* views: "auth" interleaves requests, refreshCookie and changes of the
\* stored cookie, with exchanges that either succeed or fail; "http" makes
\* requests against every answer of the server; "validate" runs
\* validateCookie, one invocation at a time, against every answer.
ClientViews == {"auth", "http", "validate"}

AnswersIn(view) ==
  IF view = "auth"
  THEN {a \in Answers : a.kind = "error" \/ (a.statusCode = 200 /\ a.json)}
  ELSE Answers

\* the user-agent saved along with a cookie (both are saved on login and
\* both deleted on logout)
UserAgentWith(c) == IF c = "" THEN "" ELSE "Mozilla"

ClientInit ==
  /\ topicPostsData = << >>
  /\ calls = [s \in Slots |-> Idle]
  /\ isLoadingPreview = FALSE
  /\ currentTopicPanel = NoPanel
  /\ ret = [op |-> "init"]
  /\ focus \in [topic : {1}, view : ClientViews]
  /\ cooked = << >>
  /\ servedOutsideStream = FALSE
  /\ livePanels = 0
  /\ readNotificationIds = {}
  /\ ClientConstructed
  /\ secrets \in CookieValues
  /\ storedUserAgent = UserAgentWith(secrets)
  /\ Activated
  /\ settings = 0

\* cookieStorage.saveCookie / deleteCookie (login, logout)
StoreCookie(c) ==
  /\ secrets # c
  /\ secrets' = c
  /\ storedUserAgent' = UserAgentWith(c)
  /\ ret' = [op |-> "storeCookie"]
  /\ UNCHANGED <<providerVars, extensionVars, calls, cookieInitialized, cookie,
                 csrfToken, userAgent, authLoads>>

\* httpsRequest(url, options, postData, followRedirects = 3) called by the
\* invocation c: the first exchange is under way
FirstExchange(c) ==
  c @@ [pc |-> "http", followRedirects |-> followRedirectsDefault, exchanges |-> 1]

\* request after ensureCookieLoaded, up to `await this.httpsRequest(...)`:
\* with an empty cookie it throws, otherwise it sends
Send(s, c) ==
  IF c = ""
  THEN /\ calls' = [calls EXCEPT ![s] = Idle]
       /\ ret' = [op |-> "request", outcome |-> "Unauthenticated",
                  cause |-> "no-cookie", exchanges |-> 0]
  ELSE /\ calls' = [calls EXCEPT ![s] = FirstExchange([op |-> "request"])]
       /\ ret' = [op |-> "suspended", by |-> "request"]

\* request(endpoint): await ensureCookieLoaded(), which starts a lazy load
\* when cookieInitialized is false and returns at once otherwise
Request ==
  \E s \in FreeSlots :
    IF ~cookieInitialized
    THEN /\ calls' = [calls EXCEPT ![s] =
                        [op |-> "request", pc |-> "getCookie", lazy |-> TRUE]]
         /\ authLoads' = authLoads + 1
         /\ ret' = [op |-> "suspended", by |-> "ensureCookieLoaded"]
         /\ UNCHANGED <<providerVars, extensionVars, cookieInitialized, cookie,
                        csrfToken, userAgent, secrets, storedUserAgent>>
    ELSE /\ Send(s, cookie)
         /\ UNCHANGED <<providerVars, extensionVars, clientVars>>

\* refreshCookie(): loads again, whatever cookieInitialized says
RefreshCookie ==
  /\ \E s \in FreeSlots :
       calls' = [calls EXCEPT ![s] =
                   [op |-> "refreshCookie", pc |-> "getCookie", lazy |-> FALSE,
                    caller |-> "none"]]
  /\ ret' = [op |-> "suspended", by |-> "refreshCookie"]
  /\ UNCHANGED <<providerVars, extensionVars, clientVars>>

\* the rest of a load (lazy or refresh) once the CSRF token is settled: a
\* request goes on to send, refreshCookie returns (to handleCookieSubmit
\* when that awaits it)
AfterLoad(s) ==
  IF calls[s].op = "request"
  THEN Send(s, cookie)
  ELSE IF calls[s].caller = "handleCookieSubmit"
       THEN /\ calls' = [calls EXCEPT ![s] =
                           [op |-> "handleSaveSettings", pc |-> "refreshed",
                            cookie |-> calls[s].submitted.cookie,
                            userAgent |-> calls[s].submitted.userAgent]]
            /\ ret' = [op |-> "suspended", by |-> "handleCookieSubmit"]
       ELSE /\ calls' = [calls EXCEPT ![s] = Idle]
            /\ ret' = [op |-> "refreshCookie"]

\* this.cookie = await this.getCookieFunc()
LoadCookieDone(s) ==
  /\ calls[s].pc = "getCookie"
  /\ cookie' = secrets
  /\ calls' = [calls EXCEPT ![s].pc = "getUserAgent"]
  /\ ret' = [op |-> "suspended", by |-> "getUserAgentFunc"]
  /\ UNCHANGED <<providerVars, extensionVars, cookieInitialized, csrfToken,
                 userAgent, secrets, storedUserAgent, authLoads>>

\* this.userAgent = await this.getUserAgentFunc(); cookieInitialized = true;
\* csrfToken = extractCsrfToken(cookie); if empty, fetch it from the homepage
LoadUserAgentDone(s) ==
  /\ calls[s].pc = "getUserAgent"
  /\ userAgent' = storedUserAgent
  /\ cookieInitialized' = TRUE
  /\ csrfToken' = extractCsrfToken(cookie)
  /\ IF extractCsrfToken(cookie) = ""
     THEN /\ calls' = [calls EXCEPT ![s].pc = "csrf"]
          /\ ret' = [op |-> "suspended", by |-> "fetchCsrfTokenFromHomepage"]
     ELSE AfterLoad(s)
  /\ UNCHANGED <<providerVars, extensionVars, cookie, secrets, storedUserAgent,
                 authLoads>>

\* this.csrfToken = await this.fetchCsrfTokenFromHomepage()
LoadCsrfDone(s) ==
  /\ calls[s].pc = "csrf"
  /\ csrfToken' \in HomepageTokens
  /\ AfterLoad(s)
  /\ UNCHANGED <<providerVars, extensionVars, cookieInitialized, cookie,
                 userAgent, secrets, storedUserAgent, authLoads>>

LoadResume(s) ==
  /\ calls[s].op \in {"request", "refreshCookie"}
  /\ \/ LoadCookieDone(s)
     \/ LoadUserAgentDone(s)
     \/ LoadCsrfDone(s)

\* faulty variant: 403 treated as an ordinary HTTP failure
ClassifyOnly401(answer) ==
  IF answer.kind = "error"
  THEN [outcome |-> "NetworkError"]
  ELSE IF answer.statusCode < 200 \/ answer.statusCode >= 300
       THEN IF answer.statusCode = 401
            THEN [outcome |-> "Unauthenticated"]
            ELSE [outcome |-> "HttpError", status |-> answer.statusCode]
       ELSE IF answer.json
            THEN [outcome |-> "json"]
            ELSE [outcome |-> "DecodeError"]

\* request after httpsRequest settled: a transport error is rethrown; a
\* status outside 200..299 throws (401/403: login expired, otherwise the
\* status); a body that JSON.parse rejects throws; else the parsed body
Classify(answer) ==
  IF answer.kind = "error"
  THEN [outcome |-> "NetworkError"]
  ELSE IF answer.statusCode < 200 \/ answer.statusCode >= 300
       THEN IF answer.statusCode = 401 \/ answer.statusCode = 403
            THEN [outcome |-> "Unauthenticated"]
            ELSE [outcome |-> "HttpError", status |-> answer.statusCode]
       ELSE IF answer.json
            THEN [outcome |-> "json"]
            ELSE [outcome |-> "DecodeError"]

\* faulty variant: the redirect budget is not spent
RedirectsLeftUnchanged(followRedirects) == followRedirects

\* this.httpsRequest(finalUrl, options, postData, followRedirects - 1)
RedirectsLeft(followRedirects) == followRedirects - 1

\* faulty variant: the fallback only after a status outside 200..299
NeedsFallbackNon2xx(statusCode) == statusCode < 200 \/ statusCode >= 300

\* validateCookie: if (response.statusCode !== 200) try the categories endpoint
NeedsFallback(statusCode) == statusCode # 200

NoAnswer == [kind |-> "none"]

\* validateCookie(cookieStr, userAgentStr) up to the user-info request
ValidateCookie ==
  /\ \E s \in FreeSlots :
       calls' = [calls EXCEPT ![s] =
                   FirstExchange([op |-> "validateCookie", stage |-> "userInfo",
                                  first |-> NoAnswer])]
  /\ ret' = [op |-> "suspended", by |-> "validateCookie"]
  /\ UNCHANGED <<providerVars, extensionVars, clientVars>>

\* validateCookie with the response it decides on: true iff 2xx and the
\* body parses; a transport error lands in the outer catch: false
ValidateResult(c, first, second, answer) ==
  [op |-> "validateCookie", raised |-> FALSE,
   value |-> /\ answer.kind = "response"
             /\ answer.statusCode >= 200 /\ answer.statusCode < 300
             /\ answer.json,
   first |-> first, second |-> second, exchanges |-> c.exchanges]

\* httpsRequest settled for the invocation in slot s
Deliver(s, answer) ==
  LET c == calls[s] IN
  IF c.op = "request"
  THEN /\ calls' = [calls EXCEPT ![s] = Idle]
       /\ ret' = [op |-> "request", cause |-> answer.kind, answer |-> answer,
                  exchanges |-> c.exchanges] @@ Classify(answer)
  ELSE IF c.stage = "userInfo"
       THEN IF answer.kind = "response" /\ NeedsFallback(answer.statusCode)
            THEN /\ calls' = [calls EXCEPT ![s] =
                                FirstExchange([op |-> "validateCookie",
                                               stage |-> "categories",
                                               first |-> answer])]
                 /\ ret' = [op |-> "suspended", by |-> "validateCookie"]
            ELSE /\ calls' = [calls EXCEPT ![s] = Idle]
                 /\ ret' = ValidateResult(c, answer, NoAnswer, answer)
       ELSE /\ calls' = [calls EXCEPT ![s] = Idle]
            /\ ret' = ValidateResult(c, c.first, answer, answer)

\* one HTTP exchange of httpsRequest ends: a redirect with a location is
\* followed while followRedirects > 0, anything else settles the promise
HttpAnswer(s, answer) ==
  /\ calls[s].op \in {"request", "validateCookie"}
  /\ calls[s].pc = "http"
  /\ IF /\ answer.kind = "response"
        /\ answer.statusCode \in RedirectCodes
        /\ calls[s].followRedirects > 0
        /\ answer.location
     THEN /\ calls' = [calls EXCEPT
                         ![s].followRedirects = RedirectsLeft(@),
                         ![s].exchanges = @ + 1]
          /\ ret' = [op |-> "suspended", by |-> "httpsRequest"]
     ELSE Deliver(s, answer)
  /\ UNCHANGED <<providerVars, extensionVars, clientVars>>

ClientNext ==
  \/ focus.view \in {"auth", "http"} /\ Request
  \/ focus.view = "auth" /\ RefreshCookie
  \/ /\ focus.view = "validate"
     /\ \A s \in Slots : calls[s].op # "validateCookie"
     /\ ValidateCookie
  \/ \E s \in Slots : LoadResume(s)
  \/ \E s \in Slots : \E answer \in AnswersIn(focus.view) : HttpAnswer(s, answer)
  \/ \E c \in CookieValues : focus.view = "auth" /\ StoreCookie(c)

ClientSpec == ClientInit /\ [][ClientNext]_vars

\* =================================== AuthenticationManager and activate()
\* The settings page and the auto-refresh timer are modelled on their own:
\* the persisted settings, the stored credentials, the client's cached ones
\* and the handleSaveSettings invocations suspended at an await.

\* executions of linuxdo.updateAutoRefresh that may be queued at once
MaxPending == 2

\* the auto-refresh choices of the settings page that are told apart
Minutes == {0, 5}

\* the cookie field of a saveSettings message, as typed
RawCookies == {"", "_t=session", " _t=session ", "cf=clearance"}

\* the user-agent field of a saveSettings message
UserAgents == {"", "Mozilla", "Opera"}

Messages == [autoRefreshMinutes : Minutes, cookie : RawCookies, userAgent : UserAgents]

\* saveSettings() of the page disables its submit button, and the page
\* enables it again when the handler answers 'saved' or 'validationFailed'
\* (a successful login closes the page): one save is handled at a time
SubmitEnabled ==
  \A s \in Slots :
    /\ calls[s].op # "handleSaveSettings"
    /\ calls[s].op = "refreshCookie" => calls[s].caller # "handleCookieSubmit"

\* String.prototype.trim on the strings of the model
Trim(str) == IF str = " _t=session " THEN "_t=session" ELSE str

\* what the awaited validateCookie may bring to handleCookieSubmit
Verdicts == {"valid", "invalid", "throws"}

ExtensionInit ==
  /\ topicPostsData = << >>
  /\ calls = [s \in Slots |-> Idle]
  /\ isLoadingPreview = FALSE
  /\ currentTopicPanel = NoPanel
  /\ ret = [op |-> "init"]
  /\ focus = [topic |-> 1, view |-> "settings"]
  /\ cooked = << >>
  /\ servedOutsideStream = FALSE
  /\ livePanels = 0
  /\ readNotificationIds = {}
  /\ ClientConstructed
  /\ secrets \in {"", "_t=session"}
  /\ storedUserAgent = UserAgentWith(secrets)
  /\ Activated
  /\ settings \in Minutes

\* applyAutoRefreshFromSettings: clear the timer held, if any; start one when
\* the persisted autoRefreshMinutes is positive
ApplyAutoRefresh(timer, running, minutes) ==
  LET cleared == IF timer THEN running - 1 ELSE running
  IN IF minutes <= 0
     THEN [autoRefreshTimer |-> FALSE, intervals |-> cleared]
     ELSE [autoRefreshTimer |-> TRUE, intervals |-> cleared + 1]

\* the linuxdo.updateAutoRefresh command runs (it has no await before its end)
UpdateAutoRefresh ==
  /\ pendingUpdates > 0
  /\ pendingUpdates' = pendingUpdates - 1
  /\ autoRefreshTimer' =
       ApplyAutoRefresh(autoRefreshTimer, intervals, settings).autoRefreshTimer
  /\ intervals' = ApplyAutoRefresh(autoRefreshTimer, intervals, settings).intervals
  /\ ret' = [op |-> "updateAutoRefresh"]
  /\ UNCHANGED <<providerVars, clientVars, calls, settings>>

\* a running interval fires: treeDataProvider.refresh()
TimerTick ==
  /\ intervals > 0
  /\ RefreshBy("timer")

\* handleSaveSettings(message, panel) up to its first await: the settings
\* are written to globalState; the stored cookie is asked for next
HandleSaveSettings(message) ==
  /\ \E s \in FreeSlots :
       calls' = [calls EXCEPT ![s] =
                   [op |-> "handleSaveSettings", pc |-> "getCookie",
                    cookie |-> Trim(message.cookie),
                    userAgent |-> Trim(message.userAgent)]]
  /\ settings' = message.autoRefreshMinutes
  /\ ret' = [op |-> "suspended", by |-> "handleSaveSettings"]
  /\ UNCHANGED <<providerVars, clientVars, autoRefreshTimer, intervals,
                 pendingUpdates>>

\* const storedCookie = (await this.cookieStorage.getCookie()) || ''
SaveSettingsCookieRead(s) ==
  /\ calls[s].pc = "getCookie"
  /\ calls' = [calls EXCEPT ![s] =
                 [op |-> "handleSaveSettings", pc |-> "getUserAgent",
                  cookie |-> calls[s].cookie, userAgent |-> calls[s].userAgent,
                  storedCookie |-> secrets]]
  /\ ret' = [op |-> "suspended", by |-> "handleSaveSettings"]
  /\ UNCHANGED <<providerVars, clientVars, extensionVars>>

\* what ends a handleSaveSettings invocation shows
Saved(c, outcome, validated) ==
  [op |-> "handleSaveSettings", outcome |-> outcome, validated |-> validated]

\* the stored user-agent arrived: nothing of the login changed -> saved, the
\* timer is re-applied; changed but a field is empty -> refused; otherwise
\* handleCookieSubmit asks validateCookie
SaveSettingsCompare(s) ==
  LET c == calls[s]
      cookieChanged == Trim(c.cookie) # Trim(c.storedCookie)
      userAgentChanged == Trim(c.userAgent) # Trim(storedUserAgent)
      authChanged == cookieChanged \/ userAgentChanged
  IN /\ c.pc = "getUserAgent"
     /\ IF ~authChanged
        THEN /\ pendingUpdates < MaxPending
             /\ pendingUpdates' = pendingUpdates + 1
             /\ calls' = [calls EXCEPT ![s] = Idle]
             /\ ret' = Saved(c, "saved", FALSE)
        ELSE IF c.cookie = "" \/ c.userAgent = ""
             THEN /\ calls' = [calls EXCEPT ![s] = Idle]
                  /\ ret' = Saved(c, "incomplete", FALSE)
                  /\ UNCHANGED pendingUpdates
             ELSE /\ calls' = [calls EXCEPT ![s] =
                                 [op |-> "handleSaveSettings", pc |-> "validateCookie",
                                  cookie |-> c.cookie, userAgent |-> c.userAgent]]
                  /\ ret' = [op |-> "suspended", by |-> "validateCookie"]
                  /\ UNCHANGED pendingUpdates
     /\ UNCHANGED <<providerVars, clientVars, settings, autoRefreshTimer, intervals>>

\* faulty variant: the submitted cookie is stored whatever validateCookie said
CookieValidatedStoresFirst(s, verdict) ==
  LET c == calls[s] IN
  /\ c.pc = "validateCookie"
  /\ secrets' = c.cookie
  /\ IF verdict = "valid"
     THEN /\ calls' = [calls EXCEPT ![s].pc = "saveCookie"]
          /\ ret' = [op |-> "suspended", by |-> "saveCookie"]
     ELSE /\ calls' = [calls EXCEPT ![s] = Idle]
          /\ ret' = Saved(c, verdict, TRUE)
  /\ UNCHANGED <<providerVars, extensionVars, cookieInitialized, cookie,
                 csrfToken, userAgent, storedUserAgent, authLoads>>

\* handleCookieSubmit after validateCookie settled: valid -> saveCookie;
\* invalid or thrown -> the page is told, nothing is stored
CookieValidated(s, verdict) ==
  LET c == calls[s] IN
  /\ c.pc = "validateCookie"
  /\ IF verdict = "valid"
     THEN /\ secrets' = c.cookie
          /\ calls' = [calls EXCEPT ![s].pc = "saveCookie"]
          /\ ret' = [op |-> "suspended", by |-> "saveCookie"]
     ELSE /\ calls' = [calls EXCEPT ![s] = Idle]
          /\ ret' = Saved(c, verdict, TRUE)
          /\ UNCHANGED secrets
  /\ UNCHANGED <<providerVars, extensionVars, cookieInitialized, cookie,
                 csrfToken, userAgent, storedUserAgent, authLoads>>

\* await saveCookie(cookie) returned: saveUserAgent(userAgent)
CookieSaved(s) ==
  /\ calls[s].pc = "saveCookie"
  /\ storedUserAgent' = calls[s].userAgent
  /\ calls' = [calls EXCEPT ![s].pc = "saveUserAgent"]
  /\ ret' = [op |-> "suspended", by |-> "saveUserAgent"]
  /\ UNCHANGED <<providerVars, extensionVars, cookieInitialized, cookie,
                 csrfToken, userAgent, secrets, authLoads>>

\* await saveUserAgent(userAgent) returned: apiClient.refreshCookie()
UserAgentSaved(s) ==
  /\ calls[s].pc = "saveUserAgent"
  /\ calls' = [calls EXCEPT ![s] =
                 [op |-> "refreshCookie", pc |-> "getCookie", lazy |-> FALSE,
                  caller |-> "handleCookieSubmit",
                  submitted |-> [cookie |-> calls[s].cookie,
                                 userAgent |-> calls[s].userAgent]]]
  /\ ret' = [op |-> "suspended", by |-> "refreshCookie"]
  /\ UNCHANGED <<providerVars, clientVars, extensionVars>>

\* await refreshCookie() returned: success shown, the page closed, the
\* refresh and updateAutoRefresh commands queued
LoginSaved(s) ==
  /\ calls[s].pc = "refreshed"
  /\ pendingUpdates < MaxPending
  /\ pendingUpdates' = pendingUpdates + 1
  /\ calls' = [calls EXCEPT ![s] = Idle]
  /\ ret' = Saved(calls[s], "logged-in", TRUE)
  /\ UNCHANGED <<providerVars, clientVars, settings, autoRefreshTimer, intervals>>

SaveSettingsResume(s) ==
  /\ calls[s].op = "handleSaveSettings"
  /\ \/ SaveSettingsCookieRead(s)
     \/ SaveSettingsCompare(s)
     \/ \E verdict \in Verdicts : CookieValidated(s, verdict)
     \/ CookieSaved(s)
     \/ UserAgentSaved(s)
     \/ LoginSaved(s)

ExtensionNext ==
  \/ \E message \in Messages : SubmitEnabled /\ HandleSaveSettings(message)
  \/ \E s \in Slots : SaveSettingsResume(s)
  \/ \E s \in Slots : LoadResume(s)
  \/ UpdateAutoRefresh
  \/ TimerTick

ExtensionSpec == ExtensionInit /\ [][ExtensionNext]_vars

\* ================================================= the content normaliser
\* extractTextFromHtml, fixImageUrls, removeEmojiSyntax and the filters are
\* pure functions of a post body and the display settings.  A text is the
\* sequence of its characters; the regular expressions are run by a
\* backtracking matcher with JavaScript's greedy quantifiers.

\* String.prototype.toLowerCase on the capitals of the modelled bodies
Lower(c) ==
  CASE c = "I" -> "i" [] c = "M" -> "m" [] c = "G" -> "g"
    [] c = "B" -> "b" [] c = "R" -> "r" [] OTHER -> c

\* regular-expression items: one character of a class, a class starred,
\* plussed or optional, a negative lookahead of one character
One(set) == [k |-> "one", set |-> set, neg |-> FALSE]

StarNot(set) == [k |-> "star", set |-> set, neg |-> TRUE]

Star(set) == [k |-> "star", set |-> set, neg |-> FALSE]

Plus(set) == [k |-> "plus", set |-> set, neg |-> FALSE]

Opt(set) == [k |-> "opt", set |-> set, neg |-> FALSE]

NotNext(set) == [k |-> "notnext", set |-> set, neg |-> FALSE]

\* a literal: its characters one after the other
Lit(chars) == [j \in 1..Len(chars) |-> One({chars[j]})]

Accepts(item, c, ignoreCase) ==
  ((IF ignoreCase THEN Lower(c) ELSE c) \in item.set) # item.neg

SetMax(S) == CHOOSE x \in S : \A y \in S : y <= x

\* the length of the longest run of characters from position i that the
\* item accepts
RECURSIVE Run(_, _, _, _)
Run(s, i, item, ignoreCase) ==
  IF i <= Len(s) /\ Accepts(item, s[i], ignoreCase)
  THEN 1 + Run(s, i + 1, item, ignoreCase)
  ELSE 0

\* Where the match of the items k.. of pat that starts at position i of s
\* ends (the position after it), or 0 when there is none: a quantifier takes
\* the most characters with which the rest still matches.
RECURSIVE MatchEnd(_, _, _, _, _)
MatchEnd(s, i, pat, k, ignoreCase) ==
  IF k > Len(pat) THEN i
  ELSE LET item == pat[k]
           here == i <= Len(s) /\ Accepts(item, s[i], ignoreCase)
           most == IF item.k = "opt" THEN (IF here THEN 1 ELSE 0)
                   ELSE Run(s, i, item, ignoreCase)
           least == IF item.k = "plus" THEN 1 ELSE 0
           fits == {n \in least..most :
                      MatchEnd(s, i + n, pat, k + 1, ignoreCase) # 0}
       IN CASE item.k = "one" ->
                 IF here THEN MatchEnd(s, i + 1, pat, k + 1, ignoreCase) ELSE 0
            [] item.k = "notnext" ->
                 IF here THEN 0 ELSE MatchEnd(s, i, pat, k + 1, ignoreCase)
            [] OTHER ->
                 IF fits = {} THEN 0
                 ELSE MatchEnd(s, i + SetMax(fits), pat, k + 1, ignoreCase)

\* String.prototype.replace with a /g expression, from position i on: each
\* match, leftmost first and not overlapping, becomes by.put followed, when
\* by.keep, by the match without its first by.skip characters
RECURSIVE ReplaceFrom(_, _, _, _, _)
ReplaceFrom(s, i, pat, ignoreCase, by) ==
  IF i > Len(s) THEN << >>
  ELSE LET e == MatchEnd(s, i, pat, 1, ignoreCase)
       IN IF e > i
          THEN by.put
                 \o (IF by.keep THEN SubSeq(s, i + by.skip, e - 1) ELSE << >>)
                 \o ReplaceFrom(s, e, pat, ignoreCase, by)
          ELSE <<s[i]>> \o ReplaceFrom(s, i + 1, pat, ignoreCase, by)

Replace(s, pat, ignoreCase, put) ==
  ReplaceFrom(s, 1, pat, ignoreCase, [put |-> put, skip |-> 0, keep |-> FALSE])

Remove(s, pat, ignoreCase) == Replace(s, pat, ignoreCase, << >>)

\* DISCOURSE_API.BASE_URL.replace(/\/+$/, ''): the base URL has no trailing slash
baseUrl == <<"h", "t", "t", "p", "s", ":", "/", "/", "l", "i", "n", "u", "x",
    ".", "d", "o">>

Quote == "\""

Apostrophe == "'"

\* faulty variant: the scheme-relative sources are left as they are
fixImageUrlsRootOnly(html) ==
  LET rootRelative(q) == Lit(<<"s", "r", "c", "=">> \o <<q, "/">>)
                           \o <<NotNext({"/"}), StarNot({q}), One({q})>>
      underBase(q) == [put |-> <<"s", "r", "c",
          "=">> \o <<q>> \o baseUrl \o <<"/">>,
                       skip |-> 6, keep |-> TRUE]
  IN ReplaceFrom(ReplaceFrom(html, 1, rootRelative(Quote), FALSE, underBase(Quote)),
                 1, rootRelative(Apostrophe), FALSE, underBase(Apostrophe))

\* fixImageUrls: src="/path" and src='/path' go under the base URL, then
\* src="//host/path" and src='//host/path' get https:
fixImageUrls(html) ==
  LET rootRelative(q) == Lit(<<"s", "r", "c", "=">> \o <<q, "/">>)
                           \o <<NotNext({"/"}), StarNot({q}), One({q})>>
      underBase(q) == [put |-> <<"s", "r", "c",
          "=">> \o <<q>> \o baseUrl \o <<"/">>,
                       skip |-> 6, keep |-> TRUE]
      schemeRelative(q) == Lit(<<"s", "r", "c", "=">> \o <<q, "/", "/">>)
                             \o <<StarNot({q}), One({q})>>
      withHttps(q) == [put |-> <<"s", "r", "c", "=">> \o <<q>> \o <<"h", "t",
          "t", "p", "s", ":", "/", "/">>,
                       skip |-> 7, keep |-> TRUE]
      a == ReplaceFrom(html, 1, rootRelative(Quote), FALSE, underBase(Quote))
      b == ReplaceFrom(a, 1, rootRelative(Apostrophe), FALSE, underBase(Apostrophe))
      c == ReplaceFrom(b, 1, schemeRelative(Quote), FALSE, withHttps(Quote))
  IN ReplaceFrom(c, 1, schemeRelative(Apostrophe), FALSE, withHttps(Apostrophe))

\* [a-zA-Z0-9_+\-] over the characters of the modelled bodies
EmojiNameChars ==
  {"a", "b", "c", "d", "e", "f", "g", "h", "i", "j", "k", "l", "m", "n", "o",
   "p", "q", "r", "s", "t", "u", "v", "w", "x", "y", "z", "I", "M", "G", "B",
   "R", "0", "1", "2", "3", "4", "5", "6", "7", "8", "9", "_", "+", "-"}

\* /<img[^>]*class=\"[^\"]*emoji[^\"]*\"[^>]*>/gi
EmojiImage ==
  Lit(<<"<", "i", "m", "g">>) \o <<StarNot({">"})>> \o Lit(<<"c", "l", "a",
      "s", "s", "=", "\"">>)
    \o <<StarNot({Quote})>> \o Lit(<<"e", "m", "o", "j", "i">>)
    \o <<StarNot({Quote}), One({Quote}), StarNot({">"}), One({">"})>>

\* /<img[^>]*>/gi
AnyImage == Lit(<<"<", "i", "m", "g">>) \o <<StarNot({">"}), One({">"})>>

\* faulty variant: only the :name: syntax is removed, the emoji images stay
removeEmojiSyntaxTextOnly(input) ==
  Remove(input, <<One({":"}), Plus(EmojiNameChars), One({":"})>>, FALSE)

\* removeEmojiSyntax: the emoji images, then the :name: syntax
removeEmojiSyntax(input) ==
  Remove(Remove(input, EmojiImage, TRUE),
         <<One({":"}), Plus(EmojiNameChars), One({":"})>>, FALSE)

\* /(\r\n|\n|\r)/g removed
WithoutLineBreaks(text) == Remove(text, <<One({"\n", "\r"})>>, FALSE)

\* applyTextFiltersForHtml: line breaks and <br> tags go when ignoreLineBreaks
applyTextFiltersForHtml(html, settings_) ==
  IF settings_.ignoreLineBreaks
  THEN Remove(WithoutLineBreaks(html),
              Lit(<<"<", "b", "r">>) \o <<Star({" ", "\n", "\r", "\t"}),
                  Opt({"/"}), One({">"})>>,
              TRUE)
  ELSE html

\* applyTextFiltersForPlainText
applyTextFiltersForPlainText(text, settings_) ==
  IF settings_.ignoreLineBreaks THEN WithoutLineBreaks(text) ELSE text

\* String.prototype.trim
RECURSIVE TrimStart(_)
TrimStart(text) ==
  IF Len(text) > 0 /\ Head(text) \in {" ", "\n", "\r", "\t"}
  THEN TrimStart(Tail(text)) ELSE text

RECURSIVE TrimEnd(_)
TrimEnd(text) ==
  IF Len(text) > 0 /\ text[Len(text)] \in {" ", "\n", "\r", "\t"}
  THEN TrimEnd(SubSeq(text, 1, Len(text) - 1)) ELSE text

TrimText(text) == TrimEnd(TrimStart(text))

\* the tag strip and the five entity replacements of extractTextFromHtml,
\* in the order of the code
StripAndUnescape(html) ==
  LET a == Remove(html, <<One({"<"}), StarNot({">"}), One({">"})>>, FALSE)
      b == Replace(a, Lit(<<"&", "n", "b", "s", "p", ";">>), FALSE, <<" ">>)
      c == Replace(b, Lit(<<"&", "l", "t", ";">>), FALSE, <<"<">>)
      d == Replace(c, Lit(<<"&", "g", "t", ";">>), FALSE, <<">">>)
      e == Replace(d, Lit(<<"&", "a", "m", "p", ";">>), FALSE, <<"&">>)
  IN Replace(e, Lit(<<"&", "q", "u", "o", "t", ";">>), FALSE, <<Quote>>)

\* extractTextFromHtml(html) under the settings read by getSettings()
extractTextFromHtml(html, settings_) ==
  LET result == IF ~settings_.showEmoji THEN removeEmojiSyntax(html) ELSE html
  IN TrimText(applyTextFiltersForPlainText(StripAndUnescape(result), settings_))

\* what buildTopicHtml and buildPostTooltip do with post.cooked (grayscale
\* off): emoji removal, then the images removed or their URLs fixed, then
\* the line-break filter
NormalizeCooked(html, settings_) ==
  LET a == IF ~settings_.showEmoji THEN removeEmojiSyntax(html) ELSE html
      b == IF ~settings_.showImages THEN Remove(a, AnyImage, TRUE)
           ELSE fixImageUrls(a)
  IN applyTextFiltersForHtml(b, settings_)

\* LinuxDoSettings, the fields the normaliser reads
DisplaySettings ==
  [showImages : BOOLEAN, showEmoji : BOOLEAN, ignoreLineBreaks : BOOLEAN]

\* pieces of cooked text: words, markup, entities (an escaped tag as in a
\* post that quotes HTML), the :name: syntax, line breaks
TextPieces ==
  { <<"h", "i">>, <<"<", "p", ">">>, <<"<", "b", ">", "x", "<", "/", "b",
      ">">>, <<"&", "l", "t", ";", "b", "&", "g", "t", ";">>, <<"&", "a",
      "m", "p", ";">>, <<"l", "t", ";">>,
    <<"&", "q", "u", "o", "t", ";", "&", "n", "b", "s", "p", ";">>, <<":",
        "+", "1", ":">>, <<"\n">>, <<"<", "b", "r", " ", "/", ">">> }

\* pieces of cooked markup with images: root-relative, scheme-relative and
\* absolute sources in either quotes, an emoji image, a capitalised tag
ImagePieces ==
  { <<"<", "i", "m", "g", " ", "s", "r", "c", "=", "\"", "/", "a", ".", "p",
      "n", "g", "\"", " ", "a", "l", "t", "=", "\"", "a", "\"", ">">>,
    <<"<", "i", "m", "g", " ", "s", "r", "c", "=", "'", "/", "b", ".", "p",
        "n", "g", "'", ">">>,
    <<"<", "i", "m", "g", " ", "s", "r", "c", "=", "\"", "/", "/", "c", "d",
        "n", ".", "i", "o", "/", "c", ".", "p", "n", "g", "\"", ">">>,
    <<"<", "i", "m", "g", " ", "s", "r", "c", "=", "'", "/", "/", "c", "d",
        "n", ".", "i", "o", "/", "d", ".", "p", "n", "g", "'", ">">>,
    <<"<", "i", "m", "g", " ", "s", "r", "c", "=", "\"", "h", "t", "t", "p",
        "s", ":", "/", "/", "c", "d", "n", ".", "i", "o", "/", "e", ".", "p",
        "n", "g", "\"", ">">>,
    <<"<", "i", "m", "g", " ", "s", "r", "c", "=", "\"", "/", "x", ".", "p",
        "n", "g", "\"", " ", "c", "l", "a", "s", "s", "=", "\"", "e", "m",
        "o", "j", "i", "\"", " ", "a", "l", "t", "=", "\"", ":", "x", ":",
        "\"", ">">>,
    <<"<", "I", "M", "G", " ", "s", "r", "c", "=", "\"", "/", "f", ".", "p",
        "n", "g", "\"", ">">>,
    <<"<", "p", ">", "h", "i", "<", "/", "p", ">">> }

\* the bodies made of no, one or two pieces of one kind
BodiesOf(pieces) ==
  {first \o second : first \in pieces \cup {<< >>}, second \in pieces \cup {<< >>}}

CookedBodies == BodiesOf(TextPieces) \cup BodiesOf(ImagePieces)

HtmlInit ==
  /\ topicPostsData = << >>
  /\ calls = [s \in Slots |-> Idle]
  /\ isLoadingPreview = FALSE
  /\ currentTopicPanel = NoPanel
  /\ ret = [op |-> "init"]
  /\ focus = [topic |-> 1, view |-> "content"]
  /\ servedOutsideStream = FALSE
  /\ livePanels = 0
  /\ readNotificationIds = {}
  /\ ClientConstructed
  /\ secrets = "_t=session"
  /\ storedUserAgent = "Mozilla"
  /\ Activated
  /\ settings = 0
  /\ cooked \in CookedBodies

\* everything but the result shown
allButRet == <<topicPostsData, calls, isLoadingPreview, currentTopicPanel,
               focus, servedOutsideStream, livePanels, readNotificationIds,
               clientVars, extensionVars, cooked>>

\* getTopicPosts builds the description of a post node: the text of its
\* body; `again` is the extraction applied to that text
ExtractText(settings_) ==
  /\ ret' = [op |-> "extractTextFromHtml", settings |-> settings_,
             text |-> extractTextFromHtml(cooked, settings_),
             again |-> extractTextFromHtml(extractTextFromHtml(cooked, settings_),
                                           settings_)]
  /\ UNCHANGED allButRet

\* fixImageUrls on the body; `again` is fixImageUrls applied to its result
FixImages ==
  /\ ret' = [op |-> "fixImageUrls", html |-> fixImageUrls(cooked),
             again |-> fixImageUrls(fixImageUrls(cooked))]
  /\ UNCHANGED allButRet

\* buildTopicHtml / buildPostTooltip normalise the body
BuildPostHtml(settings_) ==
  /\ ret' = [op |-> "buildTopicHtml", settings |-> settings_,
             html |-> NormalizeCooked(cooked, settings_)]
  /\ UNCHANGED allButRet

HtmlNext ==
  \/ \E settings_ \in DisplaySettings : ExtractText(settings_)
  \/ FixImages
  \/ \E settings_ \in DisplaySettings : BuildPostHtml(settings_)

HtmlSpec == HtmlInit /\ [][HtmlNext]_vars

\* ================================================================ claims
LoadedPosts(t) == topicPostsData[t].loadedPosts

LoadedIds(t) == Ids(LoadedPosts(t))

StreamIds(t) == Elems(topicPostsData[t].allPostIds)

Ascending(numbers) ==
  \A i \in 1..(Len(numbers) - 1) : numbers[i] <= numbers[i + 1]

PreviewCalls == {s \in Slots : calls[s].op = "openTopicPreview"}

\* C1: no two entries of a topic's loadedPosts share a post id, under any
\* interleaving of load-more invocations and whatever the batch endpoint
\* returns.
C1_NoDuplicateLoadedPosts ==
  \A t \in DOMAIN topicPostsData :
    Cardinality(LoadedIds(t)) = Len(LoadedPosts(t))

\* C2: for every topic with pagination state, loadedPosts.length <= postsCount.
C2_LoadedWithinPostsCount ==
  \A t \in DOMAIN topicPostsData :
    Len(LoadedPosts(t)) <= topicPostsData[t].postsCount

\* C3 (as claimed): the ids of loadedPosts are a subset of allPostIds,
\* whatever posts the endpoints return.
C3_LoadedSubsetOfStream ==
  \A t \in DOMAIN topicPostsData : LoadedIds(t) \subseteq StreamIds(t)

\* C3 (amended): as long as the topic-detail and batch endpoints have returned
\* only posts whose ids are in the topic's stream, the ids of loadedPosts are
\* a subset of allPostIds.
C3_LoadedSubsetWhenServedFromStream ==
  ~servedOutsideStream => C3_LoadedSubsetOfStream

C3_Witness ==
  /\ ~servedOutsideStream
  /\ ret.op = "loadMorePosts" /\ ret.outcome = "merged" /\ ~ret.detached
  /\ Len(LoadedPosts(ret.topic)) > ret.before

\* C4: the number of loaded posts of a topic never decreases, and the state,
\* once created, is never removed or replaced by a fresh seed (its stream and
\* its count stay as seeded).
C4_StateOnlyGrows ==
  [][\A t \in DOMAIN topicPostsData :
       /\ t \in DOMAIN topicPostsData'
       /\ Len(topicPostsData'[t].loadedPosts) >= Len(topicPostsData[t].loadedPosts)
       /\ topicPostsData'[t].allPostIds = topicPostsData[t].allPostIds
       /\ topicPostsData'[t].postsCount = topicPostsData[t].postsCount]_vars

\* C5: loadMorePosts invoked for a Complete topic (loadedPosts.length ==
\* postsCount) issues no batch fetch, leaves the state unchanged and reports
\* that there are no more replies.
C5_CompleteLoadMoreIsNoOp ==
  [][\A t \in DOMAIN topicPostsData :
       (/\ focus = [topic |-> t, view |-> "tree"]
        /\ LoadMorePosts(t)
        /\ Len(LoadedPosts(t)) = topicPostsData[t].postsCount)
       => /\ topicPostsData' = topicPostsData
          /\ calls' = calls
          /\ ret'.outcome = "no-more-replies"
          /\ ~ret'.fetched]_vars

\* C6: a loadMorePosts invocation that fetches issues exactly one request,
\* for the first min(20, k) of the k stream ids that are not loaded, in
\* stream order, and for no loaded id.
C6_BatchIsFirstUnloaded ==
  (ret.op = "loadMorePosts" /\ ret.fetched) =>
    LET t == ret.topic
        stream == topicPostsData[t].allPostIds
        unloaded == {q \in 1..Len(stream) : stream[q] \notin LoadedIds(t)}
        batch == ret.requests[1]
    IN /\ Len(ret.requests) = 1
       /\ Len(batch) = Min(20, Cardinality(unloaded))
       /\ Elems(batch) \cap LoadedIds(t) = {}
       /\ \A i \in 1..Len(batch) :
            \E q \in unloaded :
              /\ stream[q] = batch[i]
              /\ Cardinality({r \in unloaded : r <= q}) = i

C6_Witness ==
  /\ ret.op = "loadMorePosts" /\ ret.fetched
  /\ Len(ret.requests[1]) = 20
  /\ Cardinality(StreamIds(ret.topic) \ LoadedIds(ret.topic)) > 20

\* C7: the post nodes getTopicPosts returns and the posts of the full-topic
\* preview are in ascending post_number order, whatever the fetch order.
C7_DisplayedInPostNumberOrder ==
  /\ ret.op = "getTopicPosts" =>
       \A i \in 1..(Len(ret.nodes) - 1) :
         (ret.nodes[i].type = "post" /\ ret.nodes[i + 1].type = "post")
           => ret.nodes[i].post_number <= ret.nodes[i + 1].post_number
  /\ (ret.op = "openTopicPreview"
        /\ ret.outcome \in {"created", "reused", "no-content"}) =>
       Ascending([i \in 1..Len(ret.posts) |-> ret.posts[i].post_number])
  /\ currentTopicPanel.open =>
       Ascending([i \in 1..Len(currentTopicPanel.html) |->
                    currentTopicPanel.html[i].post_number])

C7_Witness ==
  /\ ret.op = "getTopicPosts"
  /\ Len(ret.nodes) >= 4
  /\ ~Ascending([i \in 1..Len(LoadedPosts(ret.topic)) |->
                   LoadedPosts(ret.topic)[i].post_number])

\* C8: getTopicPosts returns a load-more node iff loadedPosts.length <
\* postsCount; then there is exactly one, it is the last child, and its
\* remainder is postsCount - loadedPosts.length, a positive number.
C8_LoadMoreNodeIffPartial ==
  ret.op = "getTopicPosts" =>
    LET t == ret.topic
        nodes == ret.nodes
        loadMore == {i \in 1..Len(nodes) : nodes[i].type = "load-more"}
        remainder == topicPostsData[t].postsCount - Len(LoadedPosts(t))
    IN /\ (loadMore # {}) <=> (Len(LoadedPosts(t)) < topicPostsData[t].postsCount)
       /\ \A i \in loadMore :
            /\ i = Len(nodes)
            /\ nodes[i].description = remainder
            /\ nodes[i].description > 0
       /\ Len(nodes) = Len(LoadedPosts(t)) + Cardinality(loadMore)

C8_Witness ==
  /\ ret.op = "getTopicPosts"
  /\ Len(ret.nodes) = 21
  /\ ret.nodes[21].type = "load-more"
  /\ ret.nodes[21].description = 22

C10_SinglePreviewInFlight ==
  /\ [](Cardinality(PreviewCalls) <= 1)
  /\ [][\A t \in Topics :
          (/\ focus = [topic |-> t, view |-> "preview"]
           /\ OpenTopicPreview(t)
           /\ PreviewCalls # {})
          => /\ calls' = calls
             /\ currentTopicPanel' = currentTopicPanel
             /\ isLoadingPreview' = isLoadingPreview
             /\ ret'.outcome = "dropped"]_vars

C10_Witness ==
  /\ ret.op = "openTopicPreview" /\ ret.outcome = "dropped"
  /\ Cardinality(PreviewCalls) = 1

\* C11: at most one preview panel exists at a time and the provider's
\* reference is set exactly while it exists; an open that shows posts creates
\* a panel only when no panel is referenced and otherwise puts the new title
\* and content into the existing one; a disposal clears the reference, so the
\* next open creates a panel again.
C11_SinglePreviewPanel ==
  /\ [](livePanels <= 1 /\ (currentTopicPanel.open <=> livePanels = 1))
  /\ [][/\ (ret'.op = "openTopicPreview" /\ ret'.outcome \in {"created", "reused"})
            => /\ (ret'.outcome = "created") <=> ~currentTopicPanel.open
               /\ livePanels' = IF currentTopicPanel.open THEN livePanels
                                ELSE livePanels + 1
               /\ currentTopicPanel' =
                    [open |-> TRUE, title |-> ret'.topic, html |-> ret'.posts]
        /\ ret'.op = "onDidDispose"
            => /\ ~currentTopicPanel'.open
               /\ livePanels' = livePanels - 1]_vars

C11_Witness ==
  /\ ret.op = "openTopicPreview" /\ ret.outcome = "reused"
  /\ livePanels = 1
  /\ currentTopicPanel.title = ret.topic

RECURSIVE Flatten(_)
Flatten(seqs) ==
  IF Len(seqs) = 0 THEN << >> ELSE Head(seqs) \o Flatten(Tail(seqs))

\* the stream ids that are not on the first page, as a set
Missing(stream, firstPage) == Elems(stream) \ Ids(firstPage)

\* ids is a duplicate-free enumeration of some stream ids in stream order
InStreamOrder(ids, stream) ==
  \A i \in 1..(Len(ids) - 1) :
    \E p \in 1..Len(stream) :
      /\ stream[p] = ids[i]
      /\ \E q \in (p + 1)..Len(stream) : stream[q] = ids[i + 1]

FetchedIds(answers) ==
  UNION {Ids(answers[b].morePosts) : b \in {x \in 1..Len(answers) : answers[x].ok}}

\* C13: a failed batch is skipped and the assembly goes on: whatever batches
\* failed, every batch of the missing ids was requested, the preview shows
\* the posts of the first page and of every batch that succeeded, and the
\* operation itself fails only at the topic-detail fetch, before any batch.
C13_FailedBatchSkipped ==
  /\ (ret.op = "openTopicPreview"
        /\ ret.outcome \in {"created", "reused", "no-content"}) =>
       LET a == ret.assembly IN
       /\ Elems(Flatten(a.batches)) = Missing(a.stream, a.firstPage)
       /\ Len(a.answers) = Len(a.batches)
       /\ Ids(ret.posts) = Ids(a.firstPage) \cup FetchedIds(a.answers)
       /\ ret.outcome # "no-content" => currentTopicPanel.html = ret.posts
  /\ (ret.op = "openTopicPreview" /\ ret.outcome = "error-shown") =>
       ret.sent = 1

C13_Witness ==
  /\ ret.op = "openTopicPreview" /\ ret.outcome = "created"
  /\ Len(ret.assembly.answers) = 2
  /\ ~ret.assembly.answers[1].ok
  /\ ret.assembly.answers[2].ok
  /\ Len(ret.posts) = 22

\* C14: a top-level refresh, from the command or from the auto-refresh
\* timer, with or without a load in flight, leaves the per-topic pagination
\* map and the read-notification set as they were.
C14_RefreshKeepsState ==
  [][ret'.op = "refresh" =>
       /\ topicPostsData' = topicPostsData
       /\ readNotificationIds' = readNotificationIds
       /\ calls' = calls]_vars

C14_Witness ==
  /\ ret.op = "refresh" /\ ret.by = "timer"
  /\ \E t \in DOMAIN topicPostsData : Len(LoadedPosts(t)) > 0
  /\ \E s \in Slots : calls[s].op = "loadMorePosts"

\* C15: whenever listing the children of a node fails, getChildren does not
\* raise and yields no children, an error that names an expired or missing
\* login brings the re-login prompt and any other error the diagnostic prompt.
C15_ChildrenErrorPolicy ==
  (ret.op = "getChildren" /\ ret.failed) =>
    /\ ~ret.result.raised
    /\ ret.result.nodes = << >>
    /\ ret.result.prompt =
         IF ret.kind \in {"expired", "no-cookie"} THEN "login" ELSE "diagnostic"

\* C16: on one client the lazy load of the authentication material (the
\* cookie and user-agent providers and the CSRF derivation) runs at most
\* once, however its requests interleave.
C16_LazyLoadAtMostOnce == authLoads <= 1

\* C17: an httpsRequest makes at most 4 HTTP exchanges: it follows at most 3
\* redirects, and a redirect that arrives when the budget is spent is
\* returned to request, which classifies it as an HTTP failure with that
\* status.
C17_AtMostThreeRedirects ==
  /\ \A s \in Slots :
       (calls[s].op \in {"request", "validateCookie"} /\ calls[s].pc = "http") =>
         /\ calls[s].exchanges \in 1..4
         /\ calls[s].exchanges = 1 + (3 - calls[s].followRedirects)
  /\ (ret.op = "request" /\ ret.cause # "no-cookie") =>
       /\ ret.exchanges \in 1..4
       /\ (/\ ret.answer.kind = "response"
           /\ ret.answer.statusCode \in RedirectCodes
           /\ ret.answer.location)
          => /\ ret.exchanges = 4
             /\ ret.outcome = "HttpError"
             /\ ret.status = ret.answer.statusCode
  /\ ret.op = "validateCookie" => ret.exchanges \in 1..4

C17_Witness ==
  /\ ret.op = "request"
  /\ ret.exchanges = 4
  /\ ret.outcome = "HttpError" /\ ret.status = 302
  /\ ret.answer.location

\* C18: a request ends in the one outcome its cause determines: no cookie or
\* a 401/403 response: Unauthenticated; any other response outside 200..299:
\* HttpError with the status; a transport failure: NetworkError; a 2xx
\* response whose body does not parse: DecodeError; a 2xx response whose body
\* parses: the parsed JSON.
C18_RequestOutcome ==
  ret.op = "request" =>
    /\ ret.outcome =
         CASE ret.cause = "no-cookie" -> "Unauthenticated"
           [] ret.cause = "error" -> "NetworkError"
           [] ret.cause = "response" ->
                IF ret.answer.statusCode \in {401, 403} THEN "Unauthenticated"
                ELSE IF ret.answer.statusCode \notin 200..299 THEN "HttpError"
                ELSE IF ret.answer.json THEN "json"
                ELSE "DecodeError"
    /\ ret.outcome = "HttpError" => ret.status = ret.answer.statusCode

C18_Witness ==
  /\ ret.op = "request"
  /\ ret.outcome = "Unauthenticated"
  /\ ret.cause = "response" /\ ret.answer.statusCode = 403

\* C19: validateCookie never throws; it asks the categories endpoint exactly
\* when the user-info response has a status other than 200; it returns true
\* iff the response it decides on (the user-info response when that is 200,
\* else the categories response) is 2xx with a body that parses; a transport
\* failure of either request gives false.
C19_ValidateCookie ==
  ret.op = "validateCookie" =>
    LET fallback == ret.second # NoAnswer
        decisive == IF ret.first.kind = "response" /\ ret.first.statusCode = 200
                    THEN ret.first ELSE ret.second
    IN /\ ~ret.raised
       /\ fallback <=> (ret.first.kind = "response" /\ ret.first.statusCode # 200)
       /\ (ret.first.kind = "error" \/ ret.second.kind = "error") => ~ret.value
       /\ ret.value <=> /\ decisive.kind = "response"
                        /\ decisive.statusCode \in 200..299
                        /\ decisive.json

C19_Witness ==
  /\ ret.op = "validateCookie"
  /\ ret.first.kind = "response" /\ ret.first.statusCode = 204 /\ ret.first.json
  /\ ret.second.kind = "response" /\ ret.second.statusCode = 500
  /\ ~ret.value

\* the topic's state is the one the failed invocation read
AsReadBy(r) ==
  /\ Has(r.topic)
  /\ topicPostsData[r.topic].allPostIds = r.allPostIds
  /\ LoadedIds(r.topic) = r.loadedPostIds

\* C20: when the batch fetch of a loadMorePosts invocation fails, one request
\* was issued for it and none after (no retry), the failing step leaves the
\* pagination state as it was and shows the error, and a load-more invoked
\* next on the state the failed one read requests the same batch.
C20_LoadMoreFailureNoRetry ==
  /\ []((ret.op = "loadMorePosts" /\ ret.outcome = "error-shown")
          => ret.sent = 1)
  /\ [][(ret'.op = "loadMorePosts" /\ ret'.outcome = "error-shown")
          => topicPostsData' = topicPostsData]_vars
  /\ [][\A t \in Topics :
          (/\ ret.op = "loadMorePosts" /\ ret.outcome = "error-shown"
           /\ ret.topic = t /\ AsReadBy(ret)
           /\ focus = [topic |-> t, view |-> "tree"]
           /\ LoadMorePosts(t))
          => /\ ret'.outcome = "suspended"
             /\ ret'.requests = <<ret.requested>>]_vars

C20_Witness ==
  /\ ret.op = "loadMorePosts" /\ ret.outcome = "error-shown"
  /\ ret.sent = 1
  /\ Len(ret.requested) = 20
  /\ AsReadBy(ret)
  /\ NextBatchIds(topicPostsData[ret.topic].allPostIds, LoadedIds(ret.topic))
       = ret.requested

\* the ids of the notification nodes of a listing
NotificationIds(nodes) ==
  {nodes[i].id : i \in {x \in 1..Len(nodes) : nodes[x].type = "notification"}}

\* C21: getRootNodes lists a notification iff the server reports it unread
\* and its id is not in the local read set; the read set only grows, and an
\* id in it is not listed even when the server reports it unread again.
C21_NotificationListedIffUnread ==
  /\ []((ret.op = "suspended" /\ ret.by = "getRootNodes" /\ ret.at = "categories") =>
          /\ NotificationIds(ret.nodes) =
               IF ret.answer.ok THEN ret.answer.unread \ readNotificationIds
               ELSE {}
          /\ Len(ret.nodes) = Cardinality(NotificationIds(ret.nodes)))
  /\ [][readNotificationIds \subseteq readNotificationIds']_vars
  /\ [][ret'.op = "markNotificationAsRead"
          => ret'.notificationId \in readNotificationIds']_vars

C21_Witness ==
  /\ ret.op = "suspended" /\ ret.by = "getRootNodes" /\ ret.at = "categories"
  /\ ret.answer.ok /\ ret.answer.unread = {1, 2}
  /\ readNotificationIds = {1}
  /\ NotificationIds(ret.nodes) = {2}

\* C22: once the extension is activated, exactly one auto-refresh timer runs
\* while the persisted autoRefreshMinutes is positive and none runs
\* otherwise; however often the settings are applied, never two.
C22_OneTimerIffEnabled ==
  /\ intervals = (IF settings > 0 THEN 1 ELSE 0)
  /\ autoRefreshTimer <=> intervals = 1

\* C23: plain-text extraction is idempotent: for every body and all
\* settings, extracting the text of an extracted text gives that text.
C23_ExtractTextIdempotent ==
  ret.op = "extractTextFromHtml" => ret.again = ret.text

\* what a piece with an image is to become: the src under the base URL or
\* with https:, everything else as it was
FixedPiece(piece) ==
  CASE piece = <<"<", "i", "m", "g", " ", "s", "r", "c", "=", "\"", "/", "a",
      ".", "p", "n", "g", "\"", " ", "a", "l", "t", "=", "\"", "a", "\"",
      ">">> ->
         <<"<", "i", "m", "g", " ", "s", "r", "c", "=", "\"", "h", "t", "t",
             "p", "s", ":", "/", "/", "l", "i", "n", "u", "x", ".", "d", "o",
             "/", "a", ".", "p", "n", "g", "\"", " ", "a", "l", "t", "=",
             "\"", "a", "\"", ">">>
    [] piece = <<"<", "i", "m", "g", " ", "s", "r", "c", "=", "'", "/", "b",
        ".", "p", "n", "g", "'", ">">> ->
         <<"<", "i", "m", "g", " ", "s", "r", "c", "=", "'", "h", "t", "t",
             "p", "s", ":", "/", "/", "l", "i", "n", "u", "x", ".", "d", "o",
             "/", "b", ".", "p", "n", "g", "'", ">">>
    [] piece = <<"<", "i", "m", "g", " ", "s", "r", "c", "=", "\"", "/", "/",
        "c", "d", "n", ".", "i", "o", "/", "c", ".", "p", "n", "g", "\"",
        ">">> ->
         <<"<", "i", "m", "g", " ", "s", "r", "c", "=", "\"", "h", "t", "t",
             "p", "s", ":", "/", "/", "c", "d", "n", ".", "i", "o", "/", "c",
             ".", "p", "n", "g", "\"", ">">>
    [] piece = <<"<", "i", "m", "g", " ", "s", "r", "c", "=", "'", "/", "/",
        "c", "d", "n", ".", "i", "o", "/", "d", ".", "p", "n", "g", "'",
        ">">> ->
         <<"<", "i", "m", "g", " ", "s", "r", "c", "=", "'", "h", "t", "t",
             "p", "s", ":", "/", "/", "c", "d", "n", ".", "i", "o", "/", "d",
             ".", "p", "n", "g", "'", ">">>
    [] piece = <<"<", "i", "m", "g", " ", "s", "r", "c", "=", "\"", "/", "x",
        ".", "p", "n", "g", "\"", " ", "c", "l", "a", "s", "s", "=", "\"",
        "e", "m", "o", "j", "i", "\"", " ", "a", "l", "t", "=", "\"", ":",
        "x", ":", "\"", ">">> ->
         <<"<", "i", "m", "g", " ", "s", "r", "c", "=", "\"", "h", "t", "t",
             "p", "s", ":", "/", "/", "l", "i", "n", "u", "x", ".", "d", "o",
             "/", "x", ".", "p", "n", "g", "\"", " ", "c", "l", "a", "s",
             "s", "=", "\"", "e", "m", "o", "j", "i", "\"", " ", "a", "l",
             "t", "=", "\"", ":", "x", ":", "\"", ">">>
    [] piece = <<"<", "I", "M", "G", " ", "s", "r", "c", "=", "\"", "/", "f",
        ".", "p", "n", "g", "\"", ">">> ->
         <<"<", "I", "M", "G", " ", "s", "r", "c", "=", "\"", "h", "t", "t",
             "p", "s", ":", "/", "/", "l", "i", "n", "u", "x", ".", "d", "o",
             "/", "f", ".", "p", "n", "g", "\"", ">">>
    [] OTHER -> piece

\* the pieces whose sources are absolute already, and the empty piece
AbsolutePieces ==
  {piece \in ImagePieces \cup TextPieces \cup {<< >>} : FixedPiece(piece) = piece}

\* sub occurs in text, letters compared without case
Contains(text, sub) ==
  \E i \in 1..(Len(text) - Len(sub) + 1) :
    \A j \in 1..Len(sub) : Lower(text[i + j - 1]) = sub[j]

\* C24: fixImageUrls puts every root-relative src under the forum's base URL
\* with its path kept and gives every scheme-relative src https:, leaves a
\* body whose sources are absolute as it is, and applied to its own result
\* changes nothing.
C24_FixImageUrlsIdempotent ==
  ret.op = "fixImageUrls" =>
    /\ \A first, second \in ImagePieces \cup {<< >>} :
         cooked = first \o second =>
           ret.html = FixedPiece(first) \o FixedPiece(second)
    /\ (\E first, second \in AbsolutePieces : cooked = first \o second)
         => ret.html = cooked
    /\ ~Contains(ret.html, <<"s", "r", "c", "=", "\"", "/">>)
    /\ ~Contains(ret.html, <<"s", "r", "c", "=", "'", "/">>)
    /\ ret.again = ret.html

C24_Witness ==
  /\ ret.op = "fixImageUrls"
  /\ cooked = <<"<", "i", "m", "g", " ", "s", "r", "c", "=", "\"", "/", "a",
      ".", "p", "n", "g", "\"", " ", "a", "l", "t", "=", "\"", "a", "\"",
      ">", "<", "i", "m", "g", " ", "s", "r", "c", "=", "'", "/", "/", "c",
      "d", "n", ".", "i", "o", "/", "d", ".", "p", "n", "g", "'", ">">>
  /\ ret.html = <<"<", "i", "m", "g", " ", "s", "r", "c", "=", "\"", "h",
      "t", "t", "p", "s", ":", "/", "/", "l", "i", "n", "u", "x", ".", "d",
      "o", "/", "a", ".", "p", "n", "g", "\"", " ", "a", "l", "t", "=", "\"",
      "a", "\"", ">">>
                  \o <<"<", "i", "m", "g", " ", "s", "r", "c", "=", "'", "h",
                      "t", "t", "p", "s", ":", "/", "/", "c", "d", "n", ".",
                      "i", "o", "/", "d", ".", "p", "n", "g", "'", ">">>
  /\ ret.again = ret.html

\* the emoji image of the modelled bodies
EmojiPiece == <<"<", "i", "m", "g", " ", "s", "r", "c", "=", "\"", "/", "x",
    ".", "p", "n", "g", "\"", " ", "c", "l", "a", "s", "s", "=", "\"", "e",
    "m", "o", "j", "i", "\"", " ", "a", "l", "t", "=", "\"", ":", "x", ":",
    "\"", ">">>

\* C25: for a body with an ordinary image and an emoji image, the normalised
\* HTML has no img tag when images are off, whatever the emoji setting; with
\* images on and emoji off the emoji image is gone and every other image is
\* there with its URL fixed.
C25_ImagesAndEmojiSettings ==
  (ret.op = "buildTopicHtml"
     /\ \E first, second \in ImagePieces \cup {<< >>} : cooked = first \o second) =>
    /\ ~ret.settings.showImages => ~Contains(ret.html, <<"<", "i", "m", "g">>)
    /\ (ret.settings.showImages /\ ~ret.settings.showEmoji) =>
         \A first, second \in ImagePieces \cup {<< >>} :
           cooked = first \o second =>
             ret.html = (IF first = EmojiPiece THEN << >> ELSE FixedPiece(first))
                          \o (IF second = EmojiPiece THEN << >>
                              ELSE FixedPiece(second))

C25_Witness ==
  /\ ret.op = "buildTopicHtml"
  /\ ret.settings.showImages /\ ~ret.settings.showEmoji
  /\ cooked = <<"<", "i", "m", "g", " ", "s", "r", "c", "=", "\"", "/", "a",
      ".", "p", "n", "g", "\"", " ", "a", "l", "t", "=", "\"", "a", "\"",
      ">">> \o EmojiPiece
  /\ ret.html = <<"<", "i", "m", "g", " ", "s", "r", "c", "=", "\"", "h",
      "t", "t", "p", "s", ":", "/", "/", "l", "i", "n", "u", "x", ".", "d",
      "o", "/", "a", ".", "p", "n", "g", "\"", " ", "a", "l", "t", "=", "\"",
      "a", "\"", ">">>

\* C26: the preview guard is set exactly while an openTopicPreview invocation
\* that passed it is in flight: the step that ends such an invocation, having
\* rendered, found no posts or failed, resets isLoadingPreview, and an
\* invocation that starts while no preview is in flight is never dropped.
C26_PreviewGuardReleased ==
  /\ [](isLoadingPreview <=> PreviewCalls # {})
  /\ [][\A s \in Slots :
          (s \in PreviewCalls /\ calls'[s] = Idle)
          => /\ ~isLoadingPreview'
             /\ ret'.op = "openTopicPreview"
             /\ ret'.outcome \in {"created", "reused", "no-content",
                                  "error-shown"}]_vars
  /\ [][\A t \in Topics :
          (/\ focus = [topic |-> t, view |-> "preview"]
           /\ OpenTopicPreview(t)
           /\ PreviewCalls = {})
          => /\ ret'.outcome = "loading"
             /\ PreviewCalls' # {}]_vars

\* an earlier preview rendered its panel and ended, and the invocation after
\* it passed the guard
C26_Witness ==
  /\ ret.op = "openTopicPreview" /\ ret.outcome = "loading"
  /\ currentTopicPanel.open
  /\ Cardinality(PreviewCalls) = 1

\* C27: once the stored cookie and user-agent are deleted (logout), a request
\* made by the client sends nothing: it fails as Unauthenticated, at once or
\* after the lazy load it starts; the client holds no cookie that the storage
\* no longer holds.
C27_NoRequestAfterLogout ==
  [][(/\ secrets = "" /\ storedUserAgent = ""
      /\ focus.view = "auth"
      /\ Request)
     => /\ ~(ret'.op = "suspended" /\ ret'.by = "request")
        /\ (cookieInitialized => cookie = "")]_vars

\* C28: in every state the two completeness criteria agree for every topic
\* with pagination state: loadedPosts.length < postsCount (the load-more node
\* is shown) iff some id of allPostIds is not the id of a loaded post
\* (loadMorePosts has a batch to fetch).
C28_CompletenessCriteriaAgree ==
  \A t \in DOMAIN topicPostsData :
    (Len(LoadedPosts(t)) < topicPostsData[t].postsCount)
    <=> (StreamIds(t) \ LoadedIds(t) # {})

\* the load-more invocations a topic still needs: ceil(unloaded / 20)
BatchesLeft(data) ==
  (Cardinality(Elems(data.allPostIds) \ Ids(data.loadedPosts))
     + LoadMoreBatchSize - 1) \div LoadMoreBatchSize

\* C29: every loadMorePosts invocation whose batch fetch succeeded (it was
\* answered with the posts requested) lowers ceil(unloaded / 20) by one, so
\* that many invocations load the whole stream, and a topic with nothing
\* left to load is Complete: loadedPosts.length = postsCount, no load-more
\* node.
C29_LoadMoreProgress ==
  [][\A t \in DOMAIN topicPostsData :
       (/\ ret'.op = "loadMorePosts" /\ ret'.outcome = "merged"
        /\ ret'.topic = t
        /\ ret'.morePosts = PostsOf(ret'.requested)
        /\ t \in DOMAIN topicPostsData')
       => /\ BatchesLeft(topicPostsData'[t]) = BatchesLeft(topicPostsData[t]) - 1
          /\ (BatchesLeft(topicPostsData'[t]) = 0
              => Len(topicPostsData'[t].loadedPosts)
                   = topicPostsData'[t].postsCount)]_vars

\* the invocations of handleSaveSettings at the given await
SavingAt(pc) ==
  {s \in Slots : calls[s].op = "handleSaveSettings" /\ calls[s].pc = pc}

====
